---- MODULE Spec2Model ----
(***************************************************************************)
(* Lens-curve projection and axis coordinate mapping of the phone camera   *)
(* comparison website.                                                     *)
(*                                                                         *)
(* Three pages build chart points from the served chart file:              *)
(*   "aperture"  : src/app/page.tsx              (PhoneCameraComparison)   *)
(*   "sensor"    : src/app/sensor-size/page.tsx  (PhoneSensorSizeComparison)*)
(*   "aperture2" : src/app/sensor-size/page.tsx, second module of the file *)
(*                 (PhoneCameraComparison, from line 1225)                 *)
(*                                                                         *)
(* Numbers.  JavaScript numbers are modelled as exact rationals <<n, d>>   *)
(* with d > 0; <<0, 0>> stands for null.  Apertures are counted in tenths  *)
(* of an F-stop (18 is F1.8), so rounding with toFixed(1) is rounding to   *)
(* the nearest integer.  Focal lengths are whole millimetres.              *)
(***************************************************************************)
EXTENDS Integers, Sequences, FiniteSets, TLC

(***************************************************************************)
(* Rational arithmetic                                                     *)
(***************************************************************************)
Rat(n, d) == <<n, d>>

NullRat == <<0, 0>>

IsNull(r) == r[2] = 0

RatEq(a, b) == a[1] * b[2] = b[1] * a[2]

RatLess(a, b) == a[1] * b[2] < b[1] * a[2]

RatLeq(a, b) == a[1] * b[2] <= b[1] * a[2]

RatAdd(a, b) == <<a[1] * b[2] + b[1] * a[2], a[2] * b[2]>>

RatSub(a, b) == <<a[1] * b[2] - b[1] * a[2], a[2] * b[2]>>

RatMul(a, b) == <<a[1] * b[1], a[2] * b[2]>>

\* a / b for b > 0
RatDiv(a, b) == <<a[1] * b[2], a[2] * b[1]>>

RatOfInt(n) == <<n, 1>>

\* NaN: every comparison with it is false
NaNRat == <<0, -1>>

IsNaN(r) == r[2] < 0

\* a <= b and a < b of JavaScript numbers
NumLeq(a, b) == ~IsNaN(a) /\ ~IsNaN(b) /\ RatLeq(a, b)

NumLess(a, b) == ~IsNaN(a) /\ ~IsNaN(b) /\ RatLess(a, b)

\* "not a number": the value of a missing / null / non-numeric JSON field
NoValue == -1

IsNumber(v) == v # NoValue

(***************************************************************************)
(* Bounds of the model                                                     *)
(***************************************************************************)
MaxLenses == 3

MaxLabels == 2

MaxTicks == 3

MaxFocalValue == 60

MaxSensorNum == 8

MaxSensorDen == 6

MaxAnyLenses == 3

(***************************************************************************)
(* Axis Coordinate Mapper (a): focal length -> equidistant x position      *)
(* src/app/page.tsx:89-138                                                 *)
(***************************************************************************)
\* majorFocalLengths.findIndex(tick => tick >= focalLength); 0 stands for -1,
\* indices are 1-based here (JavaScript index + 1)
FindInsertIndex(focalLength, majorFocalLengths) ==
  LET hits == {i \in 1..Len(majorFocalLengths) : majorFocalLengths[i] >= focalLength}
  IN  IF hits = {} THEN 0
      ELSE CHOOSE i \in hits : \A j \in hits : i <= j

\* variant: the interpolation branch starts from insertIndex instead of
\* insertIndex - 1
transformOffByOne(focalLength, majorFocalLengths) ==
  LET n == Len(majorFocalLengths)
      insertIndex == FindInsertIndex(focalLength, majorFocalLengths)
  IN  IF n = 0 THEN RatOfInt(focalLength)
      ELSE IF insertIndex = 0
      THEN LET lastTickVal == majorFocalLengths[n]
               secondLastTickVal == IF n > 1 THEN majorFocalLengths[n - 1] ELSE 0
               lastSegmentLength == lastTickVal - secondLastTickVal
           IN  IF lastSegmentLength > 0
               THEN RatAdd(RatOfInt(n - 1), Rat(focalLength - lastTickVal, lastSegmentLength))
               ELSE RatOfInt(n - 1)
      ELSE IF insertIndex = 1
      THEN IF focalLength = majorFocalLengths[1] THEN RatOfInt(0)
           ELSE LET firstSegmentLength == IF n > 1
                                          THEN majorFocalLengths[2] - majorFocalLengths[1]
                                          ELSE majorFocalLengths[1]
                IN  IF firstSegmentLength > 0
                    THEN Rat(focalLength - majorFocalLengths[1], firstSegmentLength)
                    ELSE RatOfInt(0)
      ELSE LET prevTick == majorFocalLengths[insertIndex - 1]
               nextTick == majorFocalLengths[insertIndex]
               segmentLength == nextTick - prevTick
           IN  IF segmentLength = 0 THEN RatOfInt(insertIndex - 2)
               ELSE RatAdd(RatOfInt(insertIndex - 1), Rat(focalLength - prevTick, segmentLength))

\* variant: the last segment is divided by without the check of its length
transformNoLengthCheck(focalLength, majorFocalLengths) ==
  LET n == Len(majorFocalLengths)
      insertIndex == FindInsertIndex(focalLength, majorFocalLengths)
  IN  IF n = 0 THEN RatOfInt(focalLength)
      ELSE IF insertIndex = 0
      THEN LET lastTickVal == majorFocalLengths[n]
               secondLastTickVal == IF n > 1 THEN majorFocalLengths[n - 1] ELSE 0
               lastSegmentLength == lastTickVal - secondLastTickVal
           IN  RatAdd(RatOfInt(n - 1), Rat(focalLength - lastTickVal, lastSegmentLength))
      ELSE IF insertIndex = 1
      THEN IF focalLength = majorFocalLengths[1] THEN RatOfInt(0)
           ELSE LET firstSegmentLength == IF n > 1
                                          THEN majorFocalLengths[2] - majorFocalLengths[1]
                                          ELSE majorFocalLengths[1]
                IN  IF firstSegmentLength > 0
                    THEN Rat(focalLength - majorFocalLengths[1], firstSegmentLength)
                    ELSE RatOfInt(0)
      ELSE LET prevTick == majorFocalLengths[insertIndex - 1]
               nextTick == majorFocalLengths[insertIndex]
               segmentLength == nextTick - prevTick
           IN  IF segmentLength = 0 THEN RatOfInt(insertIndex - 2)
               ELSE RatAdd(RatOfInt(insertIndex - 2), Rat(focalLength - prevTick, segmentLength))

\* variant: values outside the tick range snap to the first / last index
transformClamped(focalLength, majorFocalLengths) ==
  LET n == Len(majorFocalLengths)
      insertIndex == FindInsertIndex(focalLength, majorFocalLengths)
  IN  IF n = 0 THEN RatOfInt(focalLength)
      ELSE IF insertIndex = 0 THEN RatOfInt(n - 1)
      ELSE IF insertIndex = 1 THEN RatOfInt(0)
      ELSE LET prevTick == majorFocalLengths[insertIndex - 1]
               nextTick == majorFocalLengths[insertIndex]
               segmentLength == nextTick - prevTick
           IN  IF segmentLength = 0 THEN RatOfInt(insertIndex - 2)
               ELSE RatAdd(RatOfInt(insertIndex - 2), Rat(focalLength - prevTick, segmentLength))

\* variant: a value below the first tick is placed by its distance, without sign
transformMirroredBelowFirst(focalLength, majorFocalLengths) ==
  LET n == Len(majorFocalLengths)
      insertIndex == FindInsertIndex(focalLength, majorFocalLengths)
  IN  IF n = 0 THEN RatOfInt(focalLength)
      ELSE IF insertIndex = 0
      THEN LET lastTickVal == majorFocalLengths[n]
               secondLastTickVal == IF n > 1 THEN majorFocalLengths[n - 1] ELSE 0
               lastSegmentLength == lastTickVal - secondLastTickVal
           IN  IF lastSegmentLength > 0
               THEN RatAdd(RatOfInt(n - 1), Rat(focalLength - lastTickVal, lastSegmentLength))
               ELSE RatOfInt(n - 1)
      ELSE IF insertIndex = 1
      THEN IF focalLength = majorFocalLengths[1] THEN RatOfInt(0)
           ELSE LET firstSegmentLength == IF n > 1
                                          THEN majorFocalLengths[2] - majorFocalLengths[1]
                                          ELSE majorFocalLengths[1]
                IN  IF firstSegmentLength > 0
                    THEN Rat(majorFocalLengths[1] - focalLength, firstSegmentLength)
                    ELSE RatOfInt(0)
      ELSE LET prevTick == majorFocalLengths[insertIndex - 1]
               nextTick == majorFocalLengths[insertIndex]
               segmentLength == nextTick - prevTick
           IN  IF segmentLength = 0 THEN RatOfInt(insertIndex - 2)
               ELSE RatAdd(RatOfInt(insertIndex - 2), Rat(focalLength - prevTick, segmentLength))

transformFocalLengthToXCoordinate(focalLength, majorFocalLengths) ==
  LET n == Len(majorFocalLengths)
      insertIndex == FindInsertIndex(focalLength, majorFocalLengths)
  IN  IF n = 0 THEN RatOfInt(focalLength)
      ELSE IF insertIndex = 0
      THEN LET lastTickVal == majorFocalLengths[n]
               secondLastTickVal == IF n > 1 THEN majorFocalLengths[n - 1] ELSE 0
               lastSegmentLength == lastTickVal - secondLastTickVal
           IN  IF lastSegmentLength > 0
               THEN RatAdd(RatOfInt(n - 1), Rat(focalLength - lastTickVal, lastSegmentLength))
               ELSE RatOfInt(n - 1)
      ELSE IF insertIndex = 1
      THEN IF focalLength = majorFocalLengths[1] THEN RatOfInt(0)
           ELSE LET firstSegmentLength == IF n > 1
                                          THEN majorFocalLengths[2] - majorFocalLengths[1]
                                          ELSE majorFocalLengths[1]
                IN  IF firstSegmentLength > 0
                    THEN Rat(focalLength - majorFocalLengths[1], firstSegmentLength)
                    ELSE RatOfInt(0)
      ELSE LET prevTick == majorFocalLengths[insertIndex - 1]
               nextTick == majorFocalLengths[insertIndex]
               segmentLength == nextTick - prevTick
           IN  IF segmentLength = 0 THEN RatOfInt(insertIndex - 2)
               ELSE RatAdd(RatOfInt(insertIndex - 2), Rat(focalLength - prevTick, segmentLength))

(***************************************************************************)
(* Axis Coordinate Mapper (b): sensor size -> reversed equidistant y       *)
(* src/app/sensor-size/page.tsx:149-205                                    *)
(***************************************************************************)
\* denominators 0.75, 1.0, ..., 5.0 in steps of 0.25, i.e. k/4 for k = 3..20
FirstQuarter == 3

LastQuarter == 20

\* value 1/d = 4/k; the list is sorted by value descending, which is the
\* order of construction (ascending denominators)
CUSTOM_SENSOR_Y_AXIS_DEFINITIONS ==
  [i \in 1..(LastQuarter - FirstQuarter + 1) |-> Rat(4, i + FirstQuarter - 1)]

RECURSIVE FindSensorSegmentFromUpper(_, _)
\* variant: the fraction is measured from the upper tick of the segment
FindSensorSegmentFromUpper(sensorValue, i) ==
  LET defs == CUSTOM_SENSOR_Y_AXIS_DEFINITIONS
      N == Len(defs)
  IN  IF i > N - 1 THEN RatOfInt(N - 1)
      ELSE LET upperDef == defs[i]
               lowerDef == defs[i + 1]
           IN  IF NumLeq(sensorValue, upperDef) /\ NumLess(lowerDef, sensorValue)
               THEN IF RatEq(upperDef, lowerDef) THEN RatOfInt(i - 1)
                    ELSE LET fractionFromUpper ==
                               RatDiv(RatSub(upperDef, sensorValue), RatSub(upperDef, lowerDef))
                         IN  RatSub(RatOfInt(i), fractionFromUpper)
               ELSE FindSensorSegmentFromUpper(sensorValue, i + 1)

RECURSIVE FindSensorSegment(_, _)
\* the for loop of lines 184-199, entered at 1-based index i; the result is
\* the returned position
FindSensorSegment(sensorValue, i) ==
  LET defs == CUSTOM_SENSOR_Y_AXIS_DEFINITIONS
      N == Len(defs)
  IN  IF i > N - 1 THEN RatOfInt(N - 1)
      ELSE LET upperDef == defs[i]
               lowerDef == defs[i + 1]
           IN  IF NumLeq(sensorValue, upperDef) /\ NumLess(lowerDef, sensorValue)
               THEN IF RatEq(upperDef, lowerDef) THEN RatOfInt(i - 1)
                    ELSE LET fractionFromLower ==
                               RatDiv(RatSub(sensorValue, lowerDef), RatSub(upperDef, lowerDef))
                         IN  RatSub(RatOfInt(i), fractionFromLower)
               ELSE FindSensorSegment(sensorValue, i + 1)

\* variant: the check against the largest tick value is missing
mapSensorValueNoUpperSnap(sensorValue) ==
  LET defs == CUSTOM_SENSOR_Y_AXIS_DEFINITIONS
      N == Len(defs)
  IN  IF IsNull(sensorValue) THEN NullRat
      ELSE IF N = 0 THEN NullRat
      ELSE IF NumLeq(sensorValue, defs[N]) THEN RatOfInt(N - 1)
      ELSE FindSensorSegment(sensorValue, 1)

mapSensorValueToEquidistantYPosition(sensorValue) ==
  LET defs == CUSTOM_SENSOR_Y_AXIS_DEFINITIONS
      N == Len(defs)
  IN  IF IsNull(sensorValue) THEN NullRat
      ELSE IF N = 0 THEN NullRat
      ELSE IF NumLeq(defs[1], sensorValue) THEN RatOfInt(0)
      ELSE IF NumLeq(sensorValue, defs[N]) THEN RatOfInt(N - 1)
      ELSE FindSensorSegment(sensorValue, 1)

(***************************************************************************)
(* Sensor-size helpers, src/app/sensor-size/page.tsx:102-130               *)
(***************************************************************************)
\* the sensor-size texts of the model and the texts they split into
SensorSizeTexts == {"1/1.3", "1/2", "1/2.5"}

\* sensorSizeStr.includes('/')
IncludesSlash(str) == str \in {"1/1.3", "1/2", "1/2.5"}

\* sensorSizeStr.split('/')
SplitSlash(str) ==
  CASE str = "1/1.3" -> <<"1", "1.3">>
    [] str = "1/2"   -> <<"1", "2">>
    [] str = "1/2.5" -> <<"1", "2.5">>
    [] OTHER         -> <<str>>

\* parseFloat on the decimal texts of the model
parseFloat(text) ==
  CASE text = "1"   -> Rat(1, 1)
    [] text = "2"   -> Rat(2, 1)
    [] text = "1.3" -> Rat(13, 10)
    [] text = "2.5" -> Rat(25, 10)

parseSensorSize(sensorSizeStr) ==
  IF IncludesSlash(sensorSizeStr)
  THEN LET parts == SplitSlash(sensorSizeStr)
       IN  RatDiv(parseFloat(parts[1]), parseFloat(parts[2]))
  ELSE parseFloat(sensorSizeStr)

\* variant: the basis conversion is chosen from the cropped size
calculateEquivalentSizeByCropped(originalSensorSize, originalFocalLength, targetFocalLength) ==
  LET cropFactor == Rat(targetFocalLength, originalFocalLength)
      originalSize == parseSensorSize(originalSensorSize)
      equivalentSize == RatDiv(originalSize, cropFactor)
  IN  IF RatLess(equivalentSize, Rat(1, 2))
      THEN LET actualDiagonal18mm == RatMul(RatOfInt(18), originalSize)
               croppedDiagonal18mm == RatDiv(actualDiagonal18mm, cropFactor)
           IN  RatMul(RatDiv(croppedDiagonal18mm, RatOfInt(18)), Rat(18, 16))
      ELSE equivalentSize

calculateEquivalentSensorSize(originalSensorSize, originalFocalLength, targetFocalLength) ==
  LET cropFactor == Rat(targetFocalLength, originalFocalLength)
      originalSize == parseSensorSize(originalSensorSize)
      equivalentSize == RatDiv(originalSize, cropFactor)
  IN  IF RatLess(originalSize, Rat(1, 2))
      THEN LET actualDiagonal18mm == RatMul(RatOfInt(18), originalSize)
               croppedDiagonal18mm == RatDiv(actualDiagonal18mm, cropFactor)
           IN  RatMul(RatDiv(croppedDiagonal18mm, RatOfInt(18)), Rat(18, 16))
      ELSE equivalentSize

(***************************************************************************)
(* Tick-label callbacks                                                    *)
(***************************************************************************)
\* Number.isInteger(tickIndex)
IsIntegerRat(r) == r[2] > 0 /\ r[1] % r[2] = 0

\* the 1-based position of the integer tickIndex in a list
IndexOfRat(r) == (r[1] \div r[2]) + 1

\* variant: the position is not tested for being an integer; a non-integer
\* index reads undefined
xTickCallbackNoIntegerTest(value, majors) ==
  IF NumLeq(RatOfInt(0), value) /\ NumLess(value, RatOfInt(Len(majors)))
  THEN (IF IsIntegerRat(value) THEN ToString(majors[IndexOfRat(value)]) \o "mm"
        ELSE "undefinedmm")
  ELSE ""

\* scales.x.ticks.callback of the aperture page, src/app/page.tsx:391-398
xTickCallback(value, majors) ==
  IF /\ NumLeq(RatOfInt(0), value)
     /\ NumLess(value, RatOfInt(Len(majors)))
     /\ IsIntegerRat(value)
  THEN ToString(majors[IndexOfRat(value)]) \o "mm"
  ELSE ""

\* d.toFixed(2).replace(/\.?0+$/, '') for d = quarter / 4
QuarterText(quarter) ==
  CASE quarter % 4 = 0 -> ToString(quarter \div 4)
    [] quarter % 4 = 1 -> ToString(quarter \div 4) \o ".25"
    [] quarter % 4 = 2 -> ToString(quarter \div 4) \o ".5"
    [] quarter % 4 = 3 -> ToString(quarter \div 4) \o ".75"

\* CUSTOM_SENSOR_Y_AXIS_DEFINITIONS[i].label, i 1-based
SensorTickLabel(i) ==
  IF i + FirstQuarter - 1 = 3 THEN "4/3"
  ELSE "1/" \o QuarterText(i + FirstQuarter - 1)

\* scales.y.ticks.callback of the sensor-size page,
\* src/app/sensor-size/page.tsx:489-495
yTickCallback(value) ==
  IF /\ IsIntegerRat(value)
     /\ NumLeq(RatOfInt(0), value)
     /\ NumLess(value, RatOfInt(Len(CUSTOM_SENSOR_Y_AXIS_DEFINITIONS)))
  THEN SensorTickLabel(IndexOfRat(value))
  ELSE ""

(***************************************************************************)
(* The served chart file (/data/chart-enhanced.json)                       *)
(***************************************************************************)
Pages == {"aperture", "sensor", "aperture2"}

\* the label texts of the model, ascending
LabelPool == <<"12mm", "24mm", "35mm", "120mm", "200mm">>

\* parseInt(label.replace('mm', ''))
parseIntLabel(label) ==
  CASE label = "12mm"  -> 12
    [] label = "24mm"  -> 24
    [] label = "35mm"  -> 35
    [] label = "120mm" -> 120
    [] label = "200mm" -> 200

\* parseFloat(l.replace('mm', ''))
parseFloatLabel(label) == parseIntLabel(label)

FocalPool == {24, 70, 200, 240}

AperturePool == {18, 32}

\* <<physicalApertureValue, conversionFactor>>; 16 * 2 = 32 tenths (F3.2)
PhysicalPool == {<<NoValue, NoValue>>, <<16, NoValue>>, <<16, 2>>}

\* ascending sequences over positions of LabelPool
RECURSIVE AscendingIndexSeqs(_, _)
AscendingIndexSeqs(n, maxLen) ==
  IF maxLen = 0 THEN {<<>>}
  ELSE LET shorter == AscendingIndexSeqs(n, maxLen - 1)
       IN  shorter \cup
           {Append(s, k) : s \in {t \in shorter : Len(t) = maxLen - 1}, k \in 1..n} 

IsStrictlyAscending(s) == \A i \in 1..(Len(s) - 1) : s[i] < s[i + 1]

LabelLists ==
  {[i \in 1..Len(s) |-> LabelPool[s[i]]] :
     s \in {t \in AscendingIndexSeqs(Len(LabelPool), MaxLabels) : IsStrictlyAscending(t)}}

\* lens lists as the conversion script writes them: sorted ascending by
\* focalLength (src/scripts/convert-enhanced.js:158), one lens per focal length
FocalLists ==
  LET sorted == {s \in UNION {[1..n -> FocalPool] : n \in 0..MaxLenses} : IsStrictlyAscending(s)}
  IN  sorted

ApertureLensLists ==
  UNION {
    {[i \in 1..Len(f) |-> [focalLength |-> f[i], aperture |-> a[i],
                           physicalApertureValue |-> p[i][1],
                           conversionFactor |-> p[i][2]]] :
        a \in [1..Len(f) -> AperturePool], p \in [1..Len(f) -> PhysicalPool]} :
    f \in FocalLists}

\* the sensor page reads focalLength and lensDetails only
SensorLensList(f) ==
  [i \in 1..Len(f) |-> [focalLength |-> f[i], aperture |-> 18,
                        physicalApertureValue |-> NoValue,
                        conversionFactor |-> NoValue]]

FocalSet(f) == {f[i] : i \in 1..Len(f)}

\* lensDetails[focal].sensorSize; '' when the sheet has no sensor size
\* (src/scripts/convert-enhanced.js:62-64)
ChartFiles(pg) ==
  IF pg = "sensor"
  THEN UNION {
         {[labels |-> ls,
           datasets |-> <<[label |-> "phoneA", originalLenses |-> SensorLensList(f),
                           lensDetails |-> d]>>] :
             d \in [FocalSet(f) -> SensorSizeTexts \cup {""}], ls \in LabelLists} :
         f \in FocalLists}
  ELSE {[labels |-> ls,
         datasets |-> <<[label |-> "phoneA", originalLenses |-> lenses,
                         lensDetails |-> [x \in FocalSet([i \in 1..Len(lenses) |-> lenses[i].focalLength]) |-> "1/1.3"]]>>] :
          lenses \in ApertureLensLists, ls \in LabelLists}

(***************************************************************************)
(* State                                                                   *)
(***************************************************************************)
VARIABLES
  page,                 \* the mounted page
  chartFile,            \* the chart file the server answers with
  MAJOR_FOCAL_LENGTHS,  \* module-level variable of the page's module
  chartData,            \* useState: { labels, datasets }
  loading,              \* useState: loading flag
  phoneFile,            \* the phone file the server answers with
  phoneData,            \* useState: brand -> phones
  visibleDatasets,      \* useState: set of visible phone names
  loggedError,          \* the error console.error reported last, "" for none
  axTicks,              \* argument majorFocalLengths of a mapper call
  axValue,              \* argument focalLength of a mapper call
  axResult,             \* result of transformFocalLengthToXCoordinate
  sensorValue,          \* argument of mapSensorValueToEquidistantYPosition
  yPosition,            \* its result
  mapper,               \* the mapper function under call
  called,               \* whether the call has returned
  tickValue,            \* argument value of a tick-label callback
  tickLabel,            \* its result
  showFilters,          \* useState: whether the filter panel is open
  selectedYears,        \* useState: set of selected release years
  selectedBrands,       \* useState: set of selected brand keys
  sizeSpec,             \* argument originalSensorSize of calculateEquivalentSensorSize
  sizeFocal,            \* argument originalFocalLength
  sizeTarget,           \* argument targetFocalLength
  sizeResult,           \* its result
  excelData,            \* useExcelData, useState: the parsed data, 0 for null
  excelLoading,         \* useExcelData, useState: loading flag
  excelError,           \* useExcelData, useState: error message, "" for null
  excelCalls            \* the loadData calls of the hook in the order of their
                        \* start: "pending", "resolved" or "rejected"

vars == <<page, chartFile, MAJOR_FOCAL_LENGTHS, chartData, loading,
          phoneFile, phoneData, visibleDatasets, loggedError,
          axTicks, axValue, axResult, sensorValue, yPosition, mapper, called,
          tickValue, tickLabel, showFilters, selectedYears, selectedBrands,
          sizeSpec, sizeFocal, sizeTarget, sizeResult,
          excelData, excelLoading, excelError, excelCalls>>

pageVars == <<page, chartFile, MAJOR_FOCAL_LENGTHS, chartData, loading,
              phoneFile, phoneData, visibleDatasets, loggedError>>

axisVars == <<axTicks, axValue, axResult, sensorValue, yPosition, mapper, called,
              tickValue, tickLabel>>

filterVars == <<showFilters, selectedYears, selectedBrands>>

sizeVars == <<sizeSpec, sizeFocal, sizeTarget, sizeResult>>

excelVars == <<excelData, excelLoading, excelError, excelCalls>>

(***************************************************************************)
(* Chart points                                                            *)
(***************************************************************************)
FOCAL_LENGTH_AT_END == 200

\* basis: focal length of the lens whose parameters are in details;
\* rawSensorSize: details.rawSensorSize (sensor page only, else null)
Point(x, y, originalFocalLength, pointType, basis, rawSensorSize) ==
  [x |-> x, y |-> y, originalFocalLength |-> originalFocalLength,
   pointType |-> pointType, basis |-> basis, rawSensorSize |-> rawSensorSize]

\* a null entry of an originalLenses array; reading a field of it raises a
\* TypeError, so its fields are never read for their value
NullLens == [focalLength |-> NoValue, aperture |-> NoValue,
             physicalApertureValue |-> NoValue, conversionFactor |-> NoValue,
             isNull |-> TRUE]

IsNullEntry(lens) == "isNull" \in DOMAIN lens

\* dataset.originalLenses || []
OriginalLensesOrEmpty(dataset) ==
  IF "originalLenses" \in DOMAIN dataset THEN dataset.originalLenses ELSE <<>>

\* !lens || typeof lens.focalLength !== 'number' || typeof lens.aperture !== 'number'
IsInvalidLens(lens) == ~IsNumber(lens.focalLength) \/ ~IsNumber(lens.aperture)

\* typeof physicalApertureValue === 'number' && typeof conversionFactor === 'number'
\*   && focalLength !== 0
HasPhysicalParams(lens) ==
  /\ IsNumber(lens.physicalApertureValue)
  /\ IsNumber(lens.conversionFactor)
  /\ lens.focalLength # 0

\* variant: the conversion factor is left out
PhysicalProjectionNoFactor(lens, targetFL) ==
  RatMul(Rat(lens.physicalApertureValue, lens.focalLength), RatOfInt(targetFL))

\* (physicalApertureValue * conversionFactor / focalLength) * targetFL
PhysicalProjection(lens, targetFL) ==
  RatMul(Rat(lens.physicalApertureValue * lens.conversionFactor, lens.focalLength),
         RatOfInt(targetFL))

RECURSIVE InsertByXTiesFirst(_, _)
\* variant: an element is placed before the elements of equal key
InsertByXTiesFirst(sorted, pt) ==
  IF sorted = <<>> THEN <<pt>>
  ELSE IF RatLeq(pt.x, sorted[Len(sorted)].x)
       THEN Append(InsertByXTiesFirst(SubSeq(sorted, 1, Len(sorted) - 1), pt),
                   sorted[Len(sorted)])
       ELSE Append(sorted, pt)

\* Array.prototype.sort with a comparator on one key is stable: an element is
\* placed after every element whose key is not greater
RECURSIVE InsertByX(_, _)
InsertByX(sorted, pt) ==
  IF sorted = <<>> THEN <<pt>>
  ELSE IF RatLess(pt.x, sorted[Len(sorted)].x)
       THEN Append(InsertByX(SubSeq(sorted, 1, Len(sorted) - 1), pt), sorted[Len(sorted)])
       ELSE Append(sorted, pt)

RECURSIVE SortPointsByX(_)
SortPointsByX(points) ==
  IF points = <<>> THEN <<>>
  ELSE InsertByX(SortPointsByX(SubSeq(points, 1, Len(points) - 1)), points[Len(points)])

\* the number a focalLength counts as in a.focalLength - b.focalLength: null is 0
FocalLengthAsNumber(lens) == IF IsNumber(lens.focalLength) THEN lens.focalLength ELSE 0

RECURSIVE InsertByFocalLength(_, _)
InsertByFocalLength(sorted, lens) ==
  IF sorted = <<>> THEN <<lens>>
  ELSE IF FocalLengthAsNumber(lens) < FocalLengthAsNumber(sorted[Len(sorted)])
       THEN Append(InsertByFocalLength(SubSeq(sorted, 1, Len(sorted) - 1), lens),
                   sorted[Len(sorted)])
       ELSE Append(sorted, lens)

RECURSIVE SortLensesByFocalLength(_)
\* (dataset.originalLenses || []).slice().sort((a, b) => a.focalLength - b.focalLength)
SortLensesByFocalLength(lenses) ==
  IF lenses = <<>> THEN <<>>
  ELSE InsertByFocalLength(SortLensesByFocalLength(SubSeq(lenses, 1, Len(lenses) - 1)),
                           lenses[Len(lenses)])

RECURSIVE ConcatAll(_)
ConcatAll(seqs) ==
  IF seqs = <<>> THEN <<>> ELSE Head(seqs) \o ConcatAll(Tail(seqs))

(***************************************************************************)
(* Projector of the aperture page, src/app/page.tsx:166-252                *)
(***************************************************************************)
\* the points pushed by iteration i of the for loop (lines 175-239)
ApertureLensPoints(i, originalLenses, majors) ==
  LET currentLens == originalLenses[i]
      actual == Point(transformFocalLengthToXCoordinate(currentLens.focalLength, majors),
                      RatOfInt(currentLens.aperture), currentLens.focalLength,
                      "actual", currentLens.focalLength, NullRat)
  IN  IF IsInvalidLens(currentLens) THEN <<>>
      ELSE IF i < Len(originalLenses)
      THEN LET nextLens == originalLenses[i + 1]
               y_theoretical_end_i ==
                 IF HasPhysicalParams(currentLens)
                 THEN PhysicalProjection(currentLens, nextLens.focalLength)
                 ELSE RatOfInt(currentLens.aperture)
           IN  IF IsInvalidLens(nextLens) THEN <<actual>>
               ELSE <<actual,
                      Point(transformFocalLengthToXCoordinate(nextLens.focalLength, majors),
                            y_theoretical_end_i, nextLens.focalLength,
                            "theoretical_end", currentLens.focalLength, NullRat),
                      Point(transformFocalLengthToXCoordinate(nextLens.focalLength, majors),
                            RatOfInt(nextLens.aperture), nextLens.focalLength,
                            "actual_for_vertical_line", nextLens.focalLength, NullRat)>>
      ELSE LET y_at_200mm ==
                 IF HasPhysicalParams(currentLens)
                 THEN PhysicalProjection(currentLens, FOCAL_LENGTH_AT_END)
                 ELSE RatOfInt(currentLens.aperture)
           IN  <<actual,
                 Point(transformFocalLengthToXCoordinate(FOCAL_LENGTH_AT_END, majors),
                       y_at_200mm, FOCAL_LENGTH_AT_END,
                       "theoretical_extension_to_200mm", currentLens.focalLength, NullRat)>>

AperturePoints(dataset, majors) ==
  LET originalLenses == OriginalLensesOrEmpty(dataset)
  IN  IF Len(originalLenses) > 0 /\ Len(majors) > 0
      THEN ConcatAll([i \in 1..Len(originalLenses) |->
                        ApertureLensPoints(i, originalLenses, majors)])
      ELSE <<>>

(***************************************************************************)
(* Projector of the second aperture page,                                  *)
(* src/app/sensor-size/page.tsx:1348-1445                                  *)
(***************************************************************************)
\* aperture * (targetFL / focalLength), or aperture when focalLength is 0
RatioProjection(lens, targetFL) ==
  IF lens.focalLength # 0
  THEN RatMul(RatOfInt(lens.aperture), Rat(targetFL, lens.focalLength))
  ELSE RatOfInt(lens.aperture)

\* the points pushed by iteration i of the for loop (lines 1360-1423)
Aperture2LensPoints(i, originalLenses, majors) ==
  LET currentLens == originalLenses[i]
      extendToFL == IF i + 1 <= Len(originalLenses)
                    THEN originalLenses[i + 1].focalLength
                    ELSE FOCAL_LENGTH_AT_END
      connectorAt(k) ==
        IF currentLens.focalLength < majors[k] /\ majors[k] < extendToFL
        THEN <<Point(RatOfInt(majors[k]), RatioProjection(currentLens, majors[k]),
                     majors[k], "generated_connector", currentLens.focalLength, NullRat)>>
        ELSE <<>>
  IN  IF IsInvalidLens(currentLens) THEN <<>>
      ELSE <<Point(RatOfInt(currentLens.focalLength), RatOfInt(currentLens.aperture),
                   currentLens.focalLength, "actual", currentLens.focalLength, NullRat)>>
           \o ConcatAll([k \in 1..Len(majors) |-> connectorAt(k)])
           \o (IF extendToFL > currentLens.focalLength
               THEN <<Point(RatOfInt(extendToFL), RatioProjection(currentLens, extendToFL),
                            extendToFL, "theoretical_segment_end",
                            currentLens.focalLength, NullRat)>>
               ELSE <<>>)

Aperture2Points(dataset, majors) ==
  LET originalLenses == SortLensesByFocalLength(OriginalLensesOrEmpty(dataset))
      newPoints == IF Len(originalLenses) > 0 /\ Len(majors) > 0
                   THEN ConcatAll([i \in 1..Len(originalLenses) |->
                                     Aperture2LensPoints(i, originalLenses, majors)])
                   ELSE <<>>
  IN  SortPointsByX(newPoints)

(***************************************************************************)
(* Projector of the sensor-size page, src/app/sensor-size/page.tsx:237-345 *)
(***************************************************************************)
\* dataset.lensDetails?.[focalLength.toString()]?.sensorSize; '' when absent
SensorSpecOf(dataset, focalLength) ==
  IF focalLength \in DOMAIN dataset.lensDetails
  THEN dataset.lensDetails[focalLength]
  ELSE ""

\* a point is pushed only when its y position is not null
SensorPoint(size, focalLength, pointType, basis) ==
  LET yPos == mapSensorValueToEquidistantYPosition(size)
  IN  IF IsNull(yPos) THEN <<>>
      ELSE <<Point(RatOfInt(focalLength), yPos, focalLength, pointType, basis, size)>>

\* the points pushed by iteration i of the for loop (lines 246-326)
SensorLensPoints(i, originalLensesSorted, dataset, majors) ==
  LET currentActualLens == originalLensesSorted[i]
      fl == currentActualLens.focalLength
      originalSensorSpec == SensorSpecOf(dataset, fl)
      extendToFL == IF i + 1 <= Len(originalLensesSorted)
                    THEN originalLensesSorted[i + 1].focalLength
                    ELSE FOCAL_LENGTH_AT_END
      connectorAt(k) ==
        IF fl < majors[k] /\ majors[k] < extendToFL
        THEN SensorPoint(calculateEquivalentSensorSize(originalSensorSpec, fl, majors[k]),
                         majors[k], "virtual_connector", fl)
        ELSE <<>>
  IN  IF originalSensorSpec = "" THEN <<>>
      ELSE SensorPoint(calculateEquivalentSensorSize(originalSensorSpec, fl, fl),
                       fl, "actual", fl)
           \o ConcatAll([k \in 1..Len(majors) |-> connectorAt(k)])
           \o (IF extendToFL > fl
               THEN SensorPoint(calculateEquivalentSensorSize(originalSensorSpec, fl, extendToFL),
                                extendToFL, "virtual_segment_end", fl)
               ELSE <<>>)

SensorPoints(dataset, majors) ==
  LET originalLensesSorted == SortLensesByFocalLength(OriginalLensesOrEmpty(dataset))
      newPoints == IF Len(originalLensesSorted) > 0
                   THEN ConcatAll([i \in 1..Len(originalLensesSorted) |->
                                     SensorLensPoints(i, originalLensesSorted, dataset, majors)])
                   ELSE <<>>
  IN  SortPointsByX(newPoints)

(***************************************************************************)
(* Table functions                                                         *)
(***************************************************************************)
\* Number(x.toFixed(1)) for x >= 0, in tenths: the nearest integer
RoundToOneDecimal(r) == RatOfInt((2 * r[1] + r[2]) \div (2 * r[2]))

MinFocal(lenses) ==
  CHOOSE m \in {lenses[i].focalLength : i \in 1..Len(lenses)} :
    \A i \in 1..Len(lenses) : m <= lenses[i].focalLength

\* the smallest member of a non-empty set of indices, 0 for the empty set
\* (find / findIndex return the first match)
FirstOf(hits) ==
  IF hits = {} THEN 0 ELSE CHOOSE i \in hits : \A j \in hits : i <= j

\* lenses.find(l => l.focalLength === targetFocal): index of the match, 0 if none
FindExactMatch(lenses, targetFocal) ==
  FirstOf({i \in 1..Len(lenses) : lenses[i].focalLength = targetFocal})

\* originalLenses.find(l => l.focalLength === bestLens.focalLength &&
\*                          l.aperture === bestLens.aperture)
FindSameLens(lenses, bestLens) ==
  FirstOf({i \in 1..Len(lenses) : /\ lenses[i].focalLength = bestLens.focalLength
                                  /\ lenses[i].aperture = bestLens.aperture})

\* the loop of src/app/page.tsx:610-619: the first lens with the smallest
\* distance among the lenses at or below targetFocal; 0 when there is none
BestLensIndex(targetFocal, lenses) ==
  LET below == {i \in 1..Len(lenses) : lenses[i].focalLength <= targetFocal}
  IN  IF below = {} THEN 0
      ELSE CHOOSE i \in below :
             \A j \in below :
               \/ lenses[j].focalLength < lenses[i].focalLength
               \/ (lenses[j].focalLength = lenses[i].focalLength /\ i <= j)

RECURSIVE ReduceClosest(_, _, _)
\* lenses.reduce((closest, lens) => |lens - target| < |closest - target| ? lens : closest)
ReduceClosest(targetFocal, lenses, i) ==
  LET Abs(v) == IF v < 0 THEN -v ELSE v
  IN  IF i = 1 THEN 1
      ELSE LET closest == ReduceClosest(targetFocal, lenses, i - 1)
           IN  IF Abs(lenses[i].focalLength - targetFocal)
                    < Abs(lenses[closest].focalLength - targetFocal)
               THEN i ELSE closest

\* truthiness of a numeric JSON field: neither null nor 0
Truthy(v) == IsNumber(v) /\ v # 0

\* src/app/page.tsx:595-649 up to, and without, the final toFixed(1); datasets is
\* chartData.datasets
ApertureTableRaw(targetFocal, lenses, datasets) ==
  IF Len(lenses) = 0 THEN NullRat
  ELSE IF targetFocal < MinFocal(lenses) THEN NullRat
  ELSE LET exactMatch == FindExactMatch(lenses, targetFocal)
           b == BestLensIndex(targetFocal, lenses)
           bestLens == lenses[IF b # 0 THEN b
                              ELSE ReduceClosest(targetFocal, lenses, Len(lenses))]
           dataset == FirstOf({d \in 1..Len(datasets) :
                                 FindSameLens(OriginalLensesOrEmpty(datasets[d]), bestLens) # 0})
           originalLens == datasets[dataset].originalLenses[
                             FindSameLens(datasets[dataset].originalLenses, bestLens)]
       IN  IF exactMatch # 0 THEN RatOfInt(lenses[exactMatch].aperture)
           ELSE IF dataset # 0 /\ Truthy(originalLens.physicalApertureValue)
                               /\ Truthy(originalLens.conversionFactor)
           THEN PhysicalProjection([originalLens EXCEPT !.focalLength = bestLens.focalLength],
                                   targetFocal)
           ELSE RatMul(RatOfInt(bestLens.aperture), Rat(targetFocal, bestLens.focalLength))

\* whether ApertureTableRaw returns without rounding (null or the exact match)
ApertureTableUnrounded(targetFocal, lenses) ==
  \/ Len(lenses) = 0
  \/ targetFocal < MinFocal(lenses)
  \/ FindExactMatch(lenses, targetFocal) # 0

\* calculateApertureAtFocalLength, src/app/page.tsx:595-649
calculateApertureAtFocalLength(targetFocal, lenses, datasets) ==
  LET raw == ApertureTableRaw(targetFocal, lenses, datasets)
  IN  IF ApertureTableUnrounded(targetFocal, lenses) THEN raw
      ELSE RoundToOneDecimal(raw)

RECURSIVE ReduceMaxFocal(_, _)
\* list.reduce((prev, current) => prev.focalLength > current.focalLength ? prev : current)
\* over the positions idx (a sequence of indices into lenses)
ReduceMaxFocal(lenses, idx) ==
  IF Len(idx) = 1 THEN idx[1]
  ELSE LET prev == ReduceMaxFocal(lenses, SubSeq(idx, 1, Len(idx) - 1))
           current == idx[Len(idx)]
       IN  IF lenses[prev].focalLength > lenses[current].focalLength THEN prev ELSE current

RECURSIVE SuitableLenses(_, _, _)
\* phoneLenses.filter(l => l.focalLength <= targetFocal && typeof l.aperture === 'number'):
\* the positions among the first n lenses, in order
SuitableLenses(phoneLenses, targetFocal, n) ==
  IF n = 0 THEN <<>>
  ELSE LET rest == SuitableLenses(phoneLenses, targetFocal, n - 1)
       IN  IF phoneLenses[n].focalLength <= targetFocal /\ IsNumber(phoneLenses[n].aperture)
           THEN Append(rest, n) ELSE rest

\* variant: the basis is always the lens of the greatest focal length
Aperture2TableFromLongest(targetFocal, phoneLenses) ==
  IF Len(phoneLenses) = 0 THEN NullRat
  ELSE IF targetFocal < MinFocal(phoneLenses) THEN NullRat
  ELSE LET exactMatch == FindExactMatch(phoneLenses, targetFocal)
           all == [i \in 1..Len(phoneLenses) |-> i]
           maxFocalLens == ReduceMaxFocal(phoneLenses, all)
           best == IF IsNumber(phoneLenses[maxFocalLens].aperture) THEN maxFocalLens ELSE 0
       IN  IF exactMatch # 0 /\ IsNumber(phoneLenses[exactMatch].aperture)
           THEN RatOfInt(phoneLenses[exactMatch].aperture)
           ELSE IF best = 0 THEN NullRat
           ELSE IF phoneLenses[best].focalLength = 0
           THEN (IF targetFocal = 0 THEN RatOfInt(phoneLenses[best].aperture) ELSE NullRat)
           ELSE RatMul(RatOfInt(phoneLenses[best].aperture),
                       Rat(targetFocal, phoneLenses[best].focalLength))

\* src/app/sensor-size/page.tsx:1875-1919 up to, and without, the final toFixed(1)
Aperture2TableRaw(targetFocal, phoneLenses) ==
  IF Len(phoneLenses) = 0 THEN NullRat
  ELSE IF targetFocal < MinFocal(phoneLenses) THEN NullRat
  ELSE LET exactMatch == FindExactMatch(phoneLenses, targetFocal)
           suitableLenses == SuitableLenses(phoneLenses, targetFocal, Len(phoneLenses))
           all == [i \in 1..Len(phoneLenses) |-> i]
           best == IF Len(suitableLenses) > 0
                   THEN ReduceMaxFocal(phoneLenses, suitableLenses)
                   ELSE LET maxFocalLens == ReduceMaxFocal(phoneLenses, all)
                        IN  IF IsNumber(phoneLenses[maxFocalLens].aperture)
                            THEN maxFocalLens ELSE 0
       IN  IF exactMatch # 0 /\ IsNumber(phoneLenses[exactMatch].aperture)
           THEN RatOfInt(phoneLenses[exactMatch].aperture)
           ELSE IF best = 0 THEN NullRat
           ELSE IF phoneLenses[best].focalLength = 0
           THEN (IF targetFocal = 0 THEN RatOfInt(phoneLenses[best].aperture) ELSE NullRat)
           ELSE RatMul(RatOfInt(phoneLenses[best].aperture),
                       Rat(targetFocal, phoneLenses[best].focalLength))

\* calculateApertureAtFocalLength of the second aperture page
calculateApertureAtFocalLength2(targetFocal, phoneLenses) ==
  LET raw == Aperture2TableRaw(targetFocal, phoneLenses)
      exactMatch == FindExactMatch(phoneLenses, targetFocal)
  IN  IF IsNull(raw) THEN raw
      ELSE IF exactMatch # 0 /\ IsNumber(phoneLenses[exactMatch].aperture) THEN raw
      ELSE IF phoneLenses[1].focalLength = 0 /\ targetFocal = 0 THEN raw
      ELSE RoundToOneDecimal(raw)

\* lensDetails[focalLength.toString()]?.sensorSize; '' stands for every falsy
\* outcome (no entry, no sensorSize, empty text)
SensorSizeIn(lensDetails, focalLength) ==
  IF focalLength \in DOMAIN lensDetails THEN lensDetails[focalLength] ELSE ""

\* variant: a phone without lenses gets the size 0 instead of null
calculateSensorSizeZeroForEmpty(targetFocal, lenses, lensDetails) ==
  IF Len(lenses) = 0 THEN RatOfInt(0)
  ELSE LET nativeLens == FindExactMatch(lenses, targetFocal)
           b == BestLensIndex(targetFocal, lenses)
           bestLens == lenses[IF b # 0 THEN b
                              ELSE ReduceMaxFocal(lenses, [i \in 1..Len(lenses) |-> i])]
           bestSpec == SensorSizeIn(lensDetails, bestLens.focalLength)
       IN  IF nativeLens # 0 /\ SensorSizeIn(lensDetails, targetFocal) # ""
           THEN calculateEquivalentSensorSize(SensorSizeIn(lensDetails, targetFocal),
                                              targetFocal, targetFocal)
           ELSE IF targetFocal < MinFocal(lenses) THEN NullRat
           ELSE IF bestSpec # ""
           THEN calculateEquivalentSensorSize(bestSpec, bestLens.focalLength, targetFocal)
           ELSE NullRat

\* calculateSensorSizeAtFocalLength(...).size,
\* src/app/sensor-size/page.tsx:721-779
calculateSensorSizeAtFocalLength(targetFocal, lenses, lensDetails) ==
  IF Len(lenses) = 0 THEN NullRat
  ELSE LET nativeLens == FindExactMatch(lenses, targetFocal)
           b == BestLensIndex(targetFocal, lenses)
           bestLens == lenses[IF b # 0 THEN b
                              ELSE ReduceMaxFocal(lenses, [i \in 1..Len(lenses) |-> i])]
           bestSpec == SensorSizeIn(lensDetails, bestLens.focalLength)
       IN  IF nativeLens # 0 /\ SensorSizeIn(lensDetails, targetFocal) # ""
           THEN calculateEquivalentSensorSize(SensorSizeIn(lensDetails, targetFocal),
                                              targetFocal, targetFocal)
           ELSE IF targetFocal < MinFocal(lenses) THEN NullRat
           ELSE IF bestSpec # ""
           THEN calculateEquivalentSensorSize(bestSpec, bestLens.focalLength, targetFocal)
           ELSE NullRat

(***************************************************************************)
(* loadData                                                                *)
(***************************************************************************)
EmptyChartData == [labels |-> <<>>, datasets |-> <<>>]

\* lines 160-163 of src/app/page.tsx (and 229-232, 1342-1345 of the sensor-size
\* file): the module variable is replaced only by a non-empty label list
MajorsAfterLoad(loaded, majors) ==
  IF Len(loaded.labels) > 0
  THEN [i \in 1..Len(loaded.labels) |-> parseIntLabel(loaded.labels[i])]
  ELSE majors

\* MAJOR_FOCAL_LENGTHS_NUM
MajorsNum(loaded, majors) ==
  IF Len(majors) > 0 THEN majors
  ELSE [i \in 1..Len(loaded.labels) |-> parseFloatLabel(loaded.labels[i])]

\* the projector of page pg
ProjectDataset(pg, dataset, majors) ==
  CASE pg = "aperture"  -> AperturePoints(dataset, majors)
    [] pg = "sensor"    -> SensorPoints(dataset, majors)
    [] pg = "aperture2" -> Aperture2Points(dataset, majors)

\* { ...dataset, data: newPoints }
WithData(dataset, newPoints) ==
  [k \in DOMAIN dataset \cup {"data"} |->
     IF k = "data" THEN newPoints ELSE dataset[k]]

\* { ...loadedChartData, datasets: transformedDatasets }
Transformed(pg, loaded, majors) ==
  [labels |-> loaded.labels,
   datasets |-> [i \in 1..Len(loaded.datasets) |->
                  WithData(loaded.datasets[i],
                           ProjectDataset(pg, loaded.datasets[i], majors))]]

\* the comparator of the lens sort reads a.focalLength of a null entry; it is
\* called as soon as the array has two elements
SortThrows(lenses) ==
  Len(lenses) >= 2 /\ \E i \in 1..Len(lenses) : IsNullEntry(lenses[i])

\* currentActualLens.focalLength.toString() of a null entry or of a null
\* focalLength (src/app/sensor-size/page.tsx:250)
ToStringThrows(lenses) ==
  \E i \in 1..Len(lenses) : IsNullEntry(lenses[i]) \/ ~IsNumber(lenses[i].focalLength)

\* whether the projection of the dataset raises a TypeError on page pg
ProjectionThrows(pg, dataset) ==
  CASE pg = "aperture"  -> FALSE
    [] pg = "sensor"    -> \/ SortThrows(OriginalLensesOrEmpty(dataset))
                           \/ ToStringThrows(OriginalLensesOrEmpty(dataset))
    [] pg = "aperture2" -> SortThrows(OriginalLensesOrEmpty(dataset))

\* loadedChartData.datasets.map(...) raises
TransformThrows(pg, loaded) ==
  \E i \in 1..Len(loaded.datasets) : ProjectionThrows(pg, loaded.datasets[i])

\* phones of the phone file (src/scripts/convert-enhanced.js:191-196); a
\* release date without a year gives releaseYear null
Phone(name, releaseYear) == [name |-> name, releaseYear |-> releaseYear]

PhoneFiles ==
  { [xiaomi |-> <<Phone("phoneA", 2024)>>],
    [xiaomi |-> <<Phone("phoneA", 2021), Phone("phoneB", 2024),
                  Phone("phoneC", 2023), Phone("phoneD", 2023)>>,
     vivo   |-> <<Phone("phoneE", NoValue)>>] }

\* brandData.filter(phone => phone.releaseYear)
RECURSIVE WithReleaseYear(_)
WithReleaseYear(phones) ==
  IF phones = <<>> THEN <<>>
  ELSE IF IsNumber(Head(phones).releaseYear) /\ Head(phones).releaseYear # 0
       THEN <<Head(phones)>> \o WithReleaseYear(Tail(phones))
       ELSE WithReleaseYear(Tail(phones))

\* stable insertion for .sort((a, b) => b.releaseYear - a.releaseYear)
RECURSIVE InsertByReleaseYear(_, _)
InsertByReleaseYear(sorted, phone) ==
  IF sorted = <<>> THEN <<phone>>
  ELSE IF Head(sorted).releaseYear >= phone.releaseYear
       THEN <<Head(sorted)>> \o InsertByReleaseYear(Tail(sorted), phone)
       ELSE <<phone>> \o sorted

RECURSIVE SortByReleaseYear(_)
SortByReleaseYear(phones) ==
  IF phones = <<>> THEN <<>>
  ELSE InsertByReleaseYear(
         SortByReleaseYear(SubSeq(phones, 1, Len(phones) - 1)),
         phones[Len(phones)])

\* .slice(0, 3)
Newest3(phones) ==
  SubSeq(phones, 1, IF Len(phones) < 3 THEN Len(phones) ELSE 3)

\* defaultVisible: the three newest phones of each brand
DefaultVisible(loadedPhoneData) ==
  UNION { { Newest3(SortByReleaseYear(
                      WithReleaseYear(loadedPhoneData[brand])))[i].name :
              i \in 1..Len(Newest3(SortByReleaseYear(
                             WithReleaseYear(loadedPhoneData[brand])))) } :
          brand \in DOMAIN loadedPhoneData }

\* stands for a brand value that is null in place of an array of phones; it is
\* never read as an array
NullArray == <<[isNull |-> TRUE]>>

\* loadedPhoneData[brand].filter(...) of a brand whose value is null raises a
\* TypeError
DefaultVisibleThrows(loadedPhoneData) ==
  \E brand \in DOMAIN loadedPhoneData : loadedPhoneData[brand] = NullArray

\* useState({}) of phoneData
EmptyPhoneData == <<>>

\* both responses ok, aperture page (src/app/page.tsx:151-281)
ApertureLoadData ==
  /\ page = "aperture"
  /\ loading
  /\ ~TransformThrows(page, chartFile)
  /\ ~DefaultVisibleThrows(phoneFile)
  /\ MAJOR_FOCAL_LENGTHS' = MajorsAfterLoad(chartFile, MAJOR_FOCAL_LENGTHS)
  /\ chartData' = Transformed(page, chartFile,
                              MajorsNum(chartFile, MAJOR_FOCAL_LENGTHS'))
  /\ phoneData' = phoneFile
  /\ visibleDatasets' = DefaultVisible(phoneFile)
  /\ loading' = FALSE
  /\ UNCHANGED <<page, chartFile, phoneFile, loggedError>>
  /\ UNCHANGED axisVars
  /\ UNCHANGED sizeVars
  /\ UNCHANGED excelVars
  /\ UNCHANGED filterVars

\* both responses ok, sensor-size page (src/app/sensor-size/page.tsx:220-374)
SensorLoadData ==
  /\ page = "sensor"
  /\ loading
  /\ ~TransformThrows(page, chartFile)
  /\ ~DefaultVisibleThrows(phoneFile)
  /\ MAJOR_FOCAL_LENGTHS' = MajorsAfterLoad(chartFile, MAJOR_FOCAL_LENGTHS)
  /\ chartData' = Transformed(page, chartFile,
                              MajorsNum(chartFile, MAJOR_FOCAL_LENGTHS'))
  /\ phoneData' = phoneFile
  /\ visibleDatasets' = DefaultVisible(phoneFile)
  /\ loading' = FALSE
  /\ UNCHANGED <<page, chartFile, phoneFile, loggedError>>
  /\ UNCHANGED axisVars
  /\ UNCHANGED sizeVars
  /\ UNCHANGED excelVars
  /\ UNCHANGED filterVars

\* both responses ok, second aperture page (src/app/sensor-size/page.tsx:1333-1474)
Aperture2LoadData ==
  /\ page = "aperture2"
  /\ loading
  /\ ~TransformThrows(page, chartFile)
  /\ ~DefaultVisibleThrows(phoneFile)
  /\ MAJOR_FOCAL_LENGTHS' = MajorsAfterLoad(chartFile, MAJOR_FOCAL_LENGTHS)
  /\ chartData' = Transformed(page, chartFile,
                              MajorsNum(chartFile, MAJOR_FOCAL_LENGTHS'))
  /\ phoneData' = phoneFile
  /\ visibleDatasets' = DefaultVisible(phoneFile)
  /\ loading' = FALSE
  /\ UNCHANGED <<page, chartFile, phoneFile, loggedError>>
  /\ UNCHANGED axisVars
  /\ UNCHANGED sizeVars
  /\ UNCHANGED excelVars
  /\ UNCHANGED filterVars

\* a response is not ok: nothing is stored, loading ends
LoadDataNotOk ==
  /\ loading
  /\ loading' = FALSE
  /\ UNCHANGED <<page, chartFile, MAJOR_FOCAL_LENGTHS, chartData,
                 phoneFile, phoneData, visibleDatasets, loggedError>>
  /\ UNCHANGED axisVars
  /\ UNCHANGED sizeVars
  /\ UNCHANGED excelVars
  /\ UNCHANGED filterVars

\* fetch rejects before anything is stored: the catch block ends loading
LoadDataCatch ==
  /\ loading
  /\ loggedError' = "NetworkError"
  /\ loading' = FALSE
  /\ UNCHANGED <<page, chartFile, MAJOR_FOCAL_LENGTHS, chartData,
                 phoneFile, phoneData, visibleDatasets>>
  /\ UNCHANGED axisVars
  /\ UNCHANGED sizeVars
  /\ UNCHANGED excelVars
  /\ UNCHANGED filterVars

\* variant: the labels of the file are stored before the projection raises
LoadDataThrowsStoresLabels ==
  /\ loading
  /\ TransformThrows(page, chartFile)
  /\ MAJOR_FOCAL_LENGTHS' = MajorsAfterLoad(chartFile, MAJOR_FOCAL_LENGTHS)
  /\ chartData' = [labels |-> chartFile.labels, datasets |-> <<>>]
  /\ loggedError' = "TypeError"
  /\ loading' = FALSE
  /\ UNCHANGED <<page, chartFile, phoneFile, phoneData, visibleDatasets>>
  /\ UNCHANGED axisVars
  /\ UNCHANGED sizeVars
  /\ UNCHANGED excelVars
  /\ UNCHANGED filterVars

\* the projection raises inside datasets.map: the module variable is already
\* assigned, no state is set, the catch block ends loading
LoadDataThrows ==
  /\ loading
  /\ TransformThrows(page, chartFile)
  /\ MAJOR_FOCAL_LENGTHS' = MajorsAfterLoad(chartFile, MAJOR_FOCAL_LENGTHS)
  /\ loggedError' = "TypeError"
  /\ loading' = FALSE
  /\ UNCHANGED <<page, chartFile, chartData, phoneFile, phoneData, visibleDatasets>>
  /\ UNCHANGED axisVars
  /\ UNCHANGED sizeVars
  /\ UNCHANGED excelVars
  /\ UNCHANGED filterVars

\* useExcelData: useState(null), useState(false), useState(null); no call yet
ExcelIdle ==
  /\ excelData = 0
  /\ excelLoading = FALSE
  /\ excelError = ""
  /\ excelCalls = <<>>

\* useState(false), useState(new Set()), useState(new Set())
FiltersIdle ==
  /\ showFilters = FALSE
  /\ selectedYears = {}
  /\ selectedBrands = {}
  /\ ExcelIdle

\* the projection completed and setPhoneData and setChartData were called; the
\* loop over the brands raises before setVisibleDatasets, the catch block ends
\* loading
LoadDataVisibleThrows ==
  /\ loading
  /\ ~TransformThrows(page, chartFile)
  /\ DefaultVisibleThrows(phoneFile)
  /\ MAJOR_FOCAL_LENGTHS' = MajorsAfterLoad(chartFile, MAJOR_FOCAL_LENGTHS)
  /\ chartData' = Transformed(page, chartFile,
                              MajorsNum(chartFile, MAJOR_FOCAL_LENGTHS'))
  /\ phoneData' = phoneFile
  /\ loggedError' = "TypeError"
  /\ loading' = FALSE
  /\ UNCHANGED <<page, chartFile, phoneFile, visibleDatasets>>
  /\ UNCHANGED axisVars
  /\ UNCHANGED sizeVars
  /\ UNCHANGED excelVars
  /\ UNCHANGED filterVars

AxisIdle ==
  /\ sizeSpec = ""
  /\ sizeFocal = 0
  /\ sizeTarget = 0
  /\ sizeResult = NullRat
  /\ axTicks = <<>>
  /\ axValue = 0
  /\ axResult = NullRat
  /\ sensorValue = NullRat
  /\ yPosition = NullRat
  /\ mapper = "none"
  /\ called = FALSE
  /\ tickValue = NullRat
  /\ tickLabel = ""

Init ==
  /\ page \in Pages
  /\ chartFile \in ChartFiles(page)
  /\ MAJOR_FOCAL_LENGTHS = <<>>
  /\ chartData = EmptyChartData
  /\ phoneFile \in PhoneFiles
  /\ phoneData = EmptyPhoneData
  /\ visibleDatasets = {}
  /\ loggedError = ""
  /\ loading = TRUE
  /\ AxisIdle
  /\ FiltersIdle

Next ==
  \/ ApertureLoadData
  \/ SensorLoadData
  \/ Aperture2LoadData
  \/ LoadDataNotOk
  \/ LoadDataCatch

Spec == Init /\ [][Next]_vars

(***************************************************************************)
(* Chart files of any content: lenses in any order, lenses with a null     *)
(* focalLength or aperture, null entries, no originalLenses at all          *)
(***************************************************************************)
Lens(focalLength, aperture, physicalApertureValue, conversionFactor) ==
  [focalLength |-> focalLength, aperture |-> aperture,
   physicalApertureValue |-> physicalApertureValue,
   conversionFactor |-> conversionFactor]

AnyLensPool ==
  { Lens(24, 18, NoValue, NoValue),
    Lens(70, 32, 16, 2),
    Lens(200, 40, NoValue, NoValue),
    Lens(120, NoValue, NoValue, NoValue),
    Lens(NoValue, 18, NoValue, NoValue),
    NullLens }

\* arrays of pairwise different entries
AnyLensLists ==
  UNION { {s \in [1..n -> AnyLensPool] : \A i, j \in 1..n : i # j => s[i] # s[j]} :
          n \in 0..MaxAnyLenses }

AnyLensDetails == [f \in {24, 70, 120, 200} |-> "1/1.3"]

AnyDatasets ==
  {[label |-> "phoneA", originalLenses |-> lenses, lensDetails |-> AnyLensDetails] :
     lenses \in AnyLensLists}
  \cup {[label |-> "phoneA", lensDetails |-> AnyLensDetails]}

AnyChartFiles ==
  {[labels |-> ls, datasets |-> <<ds>>] : ls \in LabelLists, ds \in AnyDatasets}

\* a phone file with a brand whose value is null in place of an array
AnyPhoneFiles == PhoneFiles \cup {[xiaomi |-> <<Phone("phoneA", 2024)>>, vivo |-> NullArray]}

InitFiles ==
  /\ page \in Pages
  /\ chartFile \in AnyChartFiles
  /\ MAJOR_FOCAL_LENGTHS = <<>>
  /\ chartData = EmptyChartData
  /\ phoneFile \in AnyPhoneFiles
  /\ phoneData = EmptyPhoneData
  /\ visibleDatasets = {}
  /\ loggedError = ""
  /\ loading = TRUE
  /\ AxisIdle
  /\ FiltersIdle

NextFiles ==
  \/ LoadDataNotOk
  \/ LoadDataCatch
  \/ LoadDataThrows
  \/ LoadDataVisibleThrows
  \/ ApertureLoadData
  \/ SensorLoadData
  \/ Aperture2LoadData

SpecFiles == InitFiles /\ [][NextFiles]_vars

(***************************************************************************)
(* Repeated mounts of a page: the module stays loaded, so the module-level *)
(* MAJOR_FOCAL_LENGTHS outlives the component, and the served chart file    *)
(* may have changed in between                                             *)
(***************************************************************************)
MountLabelLists == {<<>>, <<"35mm">>, <<"12mm", "120mm">>}

MountLensLists ==
  { <<>>,
    <<Lens(24, 18, NoValue, NoValue)>>,
    <<Lens(24, 18, NoValue, NoValue), Lens(70, 32, 16, 2)>>,
    <<NullLens, Lens(24, 18, NoValue, NoValue)>>,
    <<Lens(NoValue, 18, NoValue, NoValue)>> }

MountChartFiles ==
  {[labels |-> ls,
    datasets |-> <<[label |-> "phoneA", originalLenses |-> lenses,
                    lensDetails |-> AnyLensDetails]>>] :
     ls \in MountLabelLists, lenses \in MountLensLists}

\* the component is mounted again: useState starts from its initial values
\* and the effect starts loadData; the module variable keeps its value
Remount ==
  /\ ~loading
  /\ chartFile' \in MountChartFiles
  /\ chartData' = EmptyChartData
  /\ phoneData' = EmptyPhoneData
  /\ visibleDatasets' = {}
  /\ loading' = TRUE
  /\ UNCHANGED <<page, MAJOR_FOCAL_LENGTHS, phoneFile, loggedError>>
  /\ UNCHANGED axisVars
  /\ UNCHANGED sizeVars
  /\ UNCHANGED excelVars
  /\ UNCHANGED filterVars

InitMounts ==
  /\ page \in Pages
  /\ chartFile \in MountChartFiles
  /\ MAJOR_FOCAL_LENGTHS = <<>>
  /\ chartData = EmptyChartData
  /\ phoneFile \in PhoneFiles
  /\ phoneData = EmptyPhoneData
  /\ visibleDatasets = {}
  /\ loggedError = ""
  /\ loading = TRUE
  /\ AxisIdle
  /\ FiltersIdle

NextMounts ==
  \/ ApertureLoadData
  \/ SensorLoadData
  \/ Aperture2LoadData
  \/ LoadDataNotOk
  \/ LoadDataCatch
  \/ LoadDataThrows
  \/ Remount

SpecMounts == InitMounts /\ [][NextMounts]_vars

(***************************************************************************)
(* One mount with its loadData run to the end                              *)
(***************************************************************************)
InitLoad ==
  /\ page \in Pages
  /\ chartFile \in MountChartFiles
  /\ MAJOR_FOCAL_LENGTHS = <<>>
  /\ chartData = EmptyChartData
  /\ phoneFile \in AnyPhoneFiles
  /\ phoneData = EmptyPhoneData
  /\ visibleDatasets = {}
  /\ loggedError = ""
  /\ loading = TRUE
  /\ AxisIdle
  /\ FiltersIdle

\* a started loadData runs to its end: each await settles and the synchronous
\* code after it runs
SpecLoad == InitLoad /\ [][NextFiles]_vars /\ WF_vars(NextFiles)

(***************************************************************************)
(* The loaded page in use: several phones in the chart file, the phone     *)
(* list, the Hide all / Show all buttons and the filter panel              *)
(***************************************************************************)
MaxDatasets == 2

PhoneLensDetails == [f \in {13, 24, 70, 120} |-> "1/1.3"]

PhoneDataset(label, brand, lenses) ==
  [label |-> label, brand |-> brand, originalLenses |-> lenses,
   lensDetails |-> PhoneLensDetails]

\* phoneA and phoneB both have a 24mm lens of equivalent aperture F3.2 (the
\* sheet's column of equivalent apertures), with different physical values
PhoneDatasetPool ==
  { PhoneDataset("phoneA", "xiaomi", <<Lens(24, 32, NoValue, NoValue)>>),
    PhoneDataset("phoneA", "xiaomi", <<Lens(24, 32, 16, 2), Lens(70, 32, 16, 2)>>),
    PhoneDataset("phoneB", "vivo", <<Lens(24, 32, 8, 5)>>),
    PhoneDataset("phoneB", "vivo", <<Lens(13, 140, NoValue, NoValue),
                                     Lens(120, 60, NoValue, NoValue)>>),
    PhoneDataset("phoneC", "xiaomi", <<>>),
    PhoneDataset("phoneC", "xiaomi", <<Lens(13, 154, 22, 7)>>) }

\* one dataset per phone (src/scripts/convert-enhanced.js:198-214)
PhoneDatasetLists ==
  UNION { {ds \in [1..n -> PhoneDatasetPool] :
             \A i, j \in 1..n : i # j => ds[i].label # ds[j].label} :
          n \in 1..MaxDatasets }

PhoneChartFiles ==
  {[labels |-> ls, datasets |-> ds] :
     ls \in {<<"35mm">>, <<"12mm", "120mm">>}, ds \in PhoneDatasetLists}

BrandedPhoneFiles ==
  { [xiaomi |-> <<Phone("phoneA", 2023), Phone("phoneC", 2024)>>,
     vivo   |-> <<Phone("phoneB", 2024)>>],
    [xiaomi |-> <<Phone("phoneA", 2024)>>,
     vivo   |-> <<Phone("phoneB", NoValue)>>] }

\* Object.values(phoneData).flat(), as a set
AllPhones == UNION {{phoneData[b][i] : i \in 1..Len(phoneData[b])} : b \in DOMAIN phoneData}

\* the labels of chartData.datasets
LoadedLabelsOf(data) == {data.datasets[i].label : i \in 1..Len(data.datasets)}

\* filteredDatasets: chartData.datasets.filter(dataset => visibleDatasets.has(dataset.label))
RECURSIVE FilterVisible(_, _)
FilterVisible(datasets, visible) ==
  IF datasets = <<>> THEN <<>>
  ELSE IF Head(datasets).label \in visible
       THEN <<Head(datasets)>> \o FilterVisible(Tail(datasets), visible)
       ELSE FilterVisible(Tail(datasets), visible)

filteredDatasets == FilterVisible(chartData.datasets, visibleDatasets)

\* in tenths of an F-stop
APERTURE_SCALE == <<40, 56, 80, 110, 160, 220, 320, 450, 640>>

\* the y values of all points of the datasets, as a set
PlottedYs(datasets) ==
  UNION {{datasets[i].data[k].y : k \in 1..Len(datasets[i].data)} : i \in 1..Len(datasets)}

\* APERTURE_SCALE.findIndex(val => val >= aperture), as a JavaScript index
ScaleFindIndex(aperture) ==
  FirstOf({i \in 1..Len(APERTURE_SCALE) : RatLeq(aperture, RatOfInt(APERTURE_SCALE[i]))}) - 1

\* yAxisRange of src/app/page.tsx:297-330 for the datasets passed to the chart
yAxisRange(datasets) ==
  LET full == [min |-> APERTURE_SCALE[1], max |-> APERTURE_SCALE[Len(APERTURE_SCALE)]]
      ys == PlottedYs(datasets)
      minAperture == CHOOSE y \in ys : \A z \in ys : RatLeq(y, z)
      maxAperture == CHOOSE y \in ys : \A z \in ys : RatLeq(z, y)
      lower == ScaleFindIndex(minAperture) - 1
      upper == ScaleFindIndex(maxAperture) + 1
      minIndex == IF lower < 0 THEN 0 ELSE lower
      maxIndex == IF upper > Len(APERTURE_SCALE) - 1 THEN Len(APERTURE_SCALE) - 1 ELSE upper
  IN  IF Len(datasets) = 0 THEN full
      ELSE IF ys = {} THEN full
      ELSE IF minIndex > maxIndex THEN full
      ELSE [min |-> APERTURE_SCALE[minIndex + 1], max |-> APERTURE_SCALE[maxIndex + 1]]

\* getAvailableYears, as a set
AvailableYears ==
  {ph.releaseYear : ph \in {q \in AllPhones : Truthy(q.releaseYear)}}

\* getAvailableBrands
AvailableBrands == {b \in DOMAIN phoneData : Len(phoneData[b]) > 0}

\* the page is rendered with its controls once loading is over
Rendered == ~loading

\* variant: showing a phone hides every other phone
toggleDatasetExclusive(phoneLabel) ==
  /\ Rendered
  /\ visibleDatasets' = IF phoneLabel \in visibleDatasets
                        THEN visibleDatasets \ {phoneLabel}
                        ELSE {phoneLabel}
  /\ UNCHANGED <<page, chartFile, MAJOR_FOCAL_LENGTHS, chartData, loading,
                 phoneFile, phoneData, loggedError>>
  /\ UNCHANGED axisVars
  /\ UNCHANGED sizeVars
  /\ UNCHANGED excelVars
  /\ UNCHANGED filterVars

\* the phone buttons call toggleDataset(phone.name)
toggleDataset(phoneLabel) ==
  /\ Rendered
  /\ visibleDatasets' = IF phoneLabel \in visibleDatasets
                        THEN visibleDatasets \ {phoneLabel}
                        ELSE visibleDatasets \cup {phoneLabel}
  /\ UNCHANGED <<page, chartFile, MAJOR_FOCAL_LENGTHS, chartData, loading,
                 phoneFile, phoneData, loggedError>>
  /\ UNCHANGED axisVars
  /\ UNCHANGED sizeVars
  /\ UNCHANGED excelVars
  /\ UNCHANGED filterVars

\* getBrandPhones lists the phones with a release year
ToggleSomeDataset ==
  \E ph \in {q \in AllPhones : Truthy(q.releaseYear)} : toggleDataset(ph.name)

hideAll ==
  /\ Rendered
  /\ visibleDatasets' = {}
  /\ UNCHANGED <<page, chartFile, MAJOR_FOCAL_LENGTHS, chartData, loading,
                 phoneFile, phoneData, loggedError>>
  /\ UNCHANGED axisVars
  /\ UNCHANGED sizeVars
  /\ UNCHANGED excelVars
  /\ UNCHANGED filterVars

showAll ==
  /\ Rendered
  /\ visibleDatasets' = LoadedLabelsOf(chartData)
  /\ UNCHANGED <<page, chartFile, MAJOR_FOCAL_LENGTHS, chartData, loading,
                 phoneFile, phoneData, loggedError>>
  /\ UNCHANGED axisVars
  /\ UNCHANGED sizeVars
  /\ UNCHANGED excelVars
  /\ UNCHANGED filterVars

\* the pages of src/app/sensor-size/page.tsx have the filter panel
HasFilters == page \in {"sensor", "aperture2"}

\* the filter button: setShowFilters(!showFilters)
ToggleFilterPanel ==
  /\ Rendered /\ HasFilters
  /\ showFilters' = ~showFilters
  /\ UNCHANGED <<selectedYears, selectedBrands>>
  /\ UNCHANGED pageVars
  /\ UNCHANGED axisVars
  /\ UNCHANGED sizeVars
  /\ UNCHANGED excelVars

\* the cancel button of the panel: setShowFilters(false)
CancelFilterPanel ==
  /\ Rendered /\ HasFilters /\ showFilters
  /\ showFilters' = FALSE
  /\ UNCHANGED <<selectedYears, selectedBrands>>
  /\ UNCHANGED pageVars
  /\ UNCHANGED axisVars
  /\ UNCHANGED sizeVars
  /\ UNCHANGED excelVars

toggleYear(year) ==
  /\ Rendered /\ HasFilters /\ showFilters
  /\ selectedYears' = IF year \in selectedYears
                      THEN selectedYears \ {year}
                      ELSE selectedYears \cup {year}
  /\ UNCHANGED <<showFilters, selectedBrands>>
  /\ UNCHANGED pageVars
  /\ UNCHANGED axisVars
  /\ UNCHANGED sizeVars
  /\ UNCHANGED excelVars

ToggleSomeYear == \E year \in AvailableYears : toggleYear(year)

toggleBrand(brand) ==
  /\ Rendered /\ HasFilters /\ showFilters
  /\ selectedBrands' = IF brand \in selectedBrands
                       THEN selectedBrands \ {brand}
                       ELSE selectedBrands \cup {brand}
  /\ UNCHANGED <<showFilters, selectedYears>>
  /\ UNCHANGED pageVars
  /\ UNCHANGED axisVars
  /\ UNCHANGED sizeVars
  /\ UNCHANGED excelVars

ToggleSomeBrand == \E brand \in AvailableBrands : toggleBrand(brand)

\* Object.values(phoneData).flat().find(p => p.name === dataset.label): the
\* phones of that name, in the order of the brands and of their arrays
RECURSIVE FlatPhones(_, _)
FlatPhones(data, brands) ==
  IF brands = <<>> THEN <<>>
  ELSE data[Head(brands)] \o FlatPhones(data, Tail(brands))

\* Object.keys(phoneData): the keys in insertion order; the phone files of the
\* model list xiaomi before vivo
BrandKeys(data) ==
  (IF "xiaomi" \in DOMAIN data THEN <<"xiaomi">> ELSE <<>>)
  \o (IF "vivo" \in DOMAIN data THEN <<"vivo">> ELSE <<>>)

FindPhone(data, label) ==
  LET flat == FlatPhones(data, BrandKeys(data))
      hit == FirstOf({i \in 1..Len(flat) : flat[i].name = label})
  IN  IF hit = 0 THEN NullLens ELSE flat[hit]

\* variant: a phone passes when its year or its brand is selected
FilteredPhoneLabelsAnyMatch(data, phones, years, brands) ==
  {data.datasets[i].label :
     i \in {j \in 1..Len(data.datasets) :
              LET phone == FindPhone(phones, data.datasets[j].label)
              IN  /\ ~IsNullEntry(phone)
                  /\ \/ (years = {} \/ phone.releaseYear \in years)
                     \/ (brands = {} \/ data.datasets[j].brand \in brands)}}

\* the set filteredPhoneLabels of applyFilters
FilteredPhoneLabels(data, phones, years, brands) ==
  {data.datasets[i].label :
     i \in {j \in 1..Len(data.datasets) :
              LET phone == FindPhone(phones, data.datasets[j].label)
              IN  /\ ~IsNullEntry(phone)
                  /\ (years = {} \/ phone.releaseYear \in years)
                  /\ (brands = {} \/ data.datasets[j].brand \in brands)}}

applyFilters ==
  /\ Rendered /\ HasFilters /\ showFilters
  /\ visibleDatasets' = FilteredPhoneLabels(chartData, phoneData,
                                            selectedYears, selectedBrands)
  /\ showFilters' = FALSE
  /\ UNCHANGED <<selectedYears, selectedBrands>>
  /\ UNCHANGED <<page, chartFile, MAJOR_FOCAL_LENGTHS, chartData, loading,
                 phoneFile, phoneData, loggedError>>
  /\ UNCHANGED axisVars
  /\ UNCHANGED sizeVars
  /\ UNCHANGED excelVars

\* the clear button is shown while a year or a brand is selected
clearFilters ==
  /\ Rendered /\ HasFilters
  /\ selectedYears # {} \/ selectedBrands # {}
  /\ selectedYears' = {}
  /\ selectedBrands' = {}
  /\ UNCHANGED showFilters
  /\ UNCHANGED pageVars
  /\ UNCHANGED axisVars
  /\ UNCHANGED sizeVars
  /\ UNCHANGED excelVars

InitPhones ==
  /\ page \in Pages
  /\ chartFile \in PhoneChartFiles
  /\ MAJOR_FOCAL_LENGTHS = <<>>
  /\ chartData = EmptyChartData
  /\ phoneFile \in BrandedPhoneFiles
  /\ phoneData = EmptyPhoneData
  /\ visibleDatasets = {}
  /\ loggedError = ""
  /\ loading = TRUE
  /\ AxisIdle
  /\ FiltersIdle

NextPhones ==
  \/ ApertureLoadData
  \/ SensorLoadData
  \/ Aperture2LoadData
  \/ LoadDataNotOk
  \/ LoadDataCatch
  \/ ToggleSomeDataset
  \/ hideAll
  \/ showAll
  \/ ToggleFilterPanel
  \/ CancelFilterPanel
  \/ ToggleSomeYear
  \/ ToggleSomeBrand
  \/ applyFilters
  \/ clearFilters

SpecPhones == InitPhones /\ [][NextPhones]_vars

(***************************************************************************)
(* The mapper functions on their own                                       *)
(***************************************************************************)
TickPool == {0, 10, 20, 35, 50}

IsNonDecreasing(s) == \A i \in 1..(Len(s) - 1) : s[i] <= s[i + 1]

\* non-decreasing tick lists: adjacent ticks may be equal, the first may be 0
TickLists ==
  {s \in UNION {[1..n -> TickPool] : n \in 0..MaxTicks} : IsNonDecreasing(s)}

\* finite numbers, the tick values themselves, NaN (a sensor text that does
\* not parse) and null
SensorValues ==
  {Rat(n, d) : n \in (-1)..MaxSensorNum, d \in 1..MaxSensorDen}
    \cup {CUSTOM_SENSOR_Y_AXIS_DEFINITIONS[k] :
            k \in 1..Len(CUSTOM_SENSOR_Y_AXIS_DEFINITIONS)}
    \cup {NaNRat, NullRat}

\* the positions the chart library asks labels for: integers, halves and NaN
TickPositions ==
  {Rat(n, d) : n \in (-2)..(2 * (LastQuarter - FirstQuarter) + 4), d \in 1..2}
    \cup {NaNRat}

PagesIdle ==
  /\ page = "aperture"
  /\ chartFile = EmptyChartData
  /\ chartData = EmptyChartData
  /\ phoneFile = EmptyPhoneData
  /\ phoneData = EmptyPhoneData
  /\ visibleDatasets = {}
  /\ loggedError = ""
  /\ loading = FALSE

\* the focal lengths of the calls of calculateEquivalentSensorSize
SizeFocals == {13, 24, 35, 70, 120, 200}

InitAxis ==
  /\ PagesIdle
  /\ FiltersIdle
  /\ mapper \in {"transform", "mapSensor", "xTick", "yTick", "equivalentSize"}
  /\ called = FALSE
  /\ axResult = NullRat
  /\ sizeResult = NullRat
  /\ IF mapper = "equivalentSize"
     THEN sizeSpec \in SensorSizeTexts /\ sizeFocal \in SizeFocals /\ sizeTarget \in SizeFocals
     ELSE sizeSpec = "" /\ sizeFocal = 0 /\ sizeTarget = 0
  /\ yPosition = NullRat
  /\ tickLabel = ""
  /\ IF mapper = "transform"
     THEN axTicks \in TickLists /\ axValue \in 0..MaxFocalValue
     ELSE axTicks = <<>> /\ axValue = 0
  /\ IF mapper = "mapSensor" THEN sensorValue \in SensorValues ELSE sensorValue = NullRat
  /\ IF mapper = "xTick"
     THEN MAJOR_FOCAL_LENGTHS \in TickLists
     ELSE MAJOR_FOCAL_LENGTHS = <<>>
  /\ IF mapper \in {"xTick", "yTick"}
     THEN tickValue \in TickPositions
     ELSE tickValue = NullRat

CallTransform ==
  /\ mapper = "transform"
  /\ ~called
  /\ axResult' = transformFocalLengthToXCoordinate(axValue, axTicks)
  /\ called' = TRUE
  /\ UNCHANGED <<axTicks, axValue, sensorValue, yPosition, mapper,
                 tickValue, tickLabel>>
  /\ UNCHANGED pageVars
  /\ UNCHANGED filterVars
  /\ UNCHANGED sizeVars
  /\ UNCHANGED excelVars

CallMapSensor ==
  /\ mapper = "mapSensor"
  /\ ~called
  /\ yPosition' = mapSensorValueToEquidistantYPosition(sensorValue)
  /\ called' = TRUE
  /\ UNCHANGED <<axTicks, axValue, axResult, sensorValue, mapper,
                 tickValue, tickLabel>>
  /\ UNCHANGED pageVars
  /\ UNCHANGED filterVars
  /\ UNCHANGED sizeVars
  /\ UNCHANGED excelVars

\* the chart library asks the aperture page for the label of an x position
CallXTickCallback ==
  /\ mapper = "xTick"
  /\ ~called
  /\ tickLabel' = xTickCallback(tickValue, MAJOR_FOCAL_LENGTHS)
  /\ called' = TRUE
  /\ UNCHANGED <<axTicks, axValue, axResult, sensorValue, yPosition, mapper, tickValue>>
  /\ UNCHANGED pageVars
  /\ UNCHANGED filterVars
  /\ UNCHANGED sizeVars
  /\ UNCHANGED excelVars

\* the chart library asks the sensor-size page for the label of a y position
CallYTickCallback ==
  /\ mapper = "yTick"
  /\ ~called
  /\ tickLabel' = yTickCallback(tickValue)
  /\ called' = TRUE
  /\ UNCHANGED <<axTicks, axValue, axResult, sensorValue, yPosition, mapper, tickValue>>
  /\ UNCHANGED pageVars
  /\ UNCHANGED filterVars
  /\ UNCHANGED sizeVars
  /\ UNCHANGED excelVars

CallEquivalentSensorSize ==
  /\ mapper = "equivalentSize"
  /\ ~called
  /\ sizeResult' = calculateEquivalentSensorSize(sizeSpec, sizeFocal, sizeTarget)
  /\ called' = TRUE
  /\ UNCHANGED <<sizeSpec, sizeFocal, sizeTarget>>
  /\ UNCHANGED excelVars
  /\ UNCHANGED <<axTicks, axValue, axResult, sensorValue, yPosition, mapper,
                 tickValue, tickLabel>>
  /\ UNCHANGED pageVars
  /\ UNCHANGED filterVars

NextAxis ==
  \/ CallTransform
  \/ CallMapSensor
  \/ CallXTickCallback
  \/ CallYTickCallback
  \/ CallEquivalentSensorSize

SpecAxis == InitAxis /\ [][NextAxis]_vars

(***************************************************************************)
(* useExcelData (src/lib/excel-loader.ts:192-223): loadData may be called   *)
(* again while an earlier call awaits its loader                           *)
(***************************************************************************)
MaxCalls == 4

\* the message of the error call id rejects with
ErrorOf(id) == CASE id = 1 -> "error 1" [] id = 2 -> "error 2"
                 [] id = 3 -> "error 3" [] id = 4 -> "error 4"
                 [] OTHER -> "error 5"

\* loadData is called (by the effect for url, or by the component): the code
\* up to the await
ExcelStartLoad ==
  /\ Len(excelCalls) < MaxCalls
  /\ excelCalls' = Append(excelCalls, "pending")
  /\ excelLoading' = TRUE
  /\ excelError' = ""
  /\ UNCHANGED excelData
  /\ UNCHANGED pageVars
  /\ UNCHANGED axisVars
  /\ UNCHANGED sizeVars
  /\ UNCHANGED <<showFilters, selectedYears, selectedBrands>>

\* the loader of call id resolves: setData(result), then finally
\* setLoading(false); the data of call id is written as id
ExcelLoadResolves(id) ==
  /\ id \in 1..Len(excelCalls)
  /\ excelCalls[id] = "pending"
  /\ excelCalls' = [excelCalls EXCEPT ![id] = "resolved"]
  /\ excelData' = id
  /\ excelLoading' = FALSE
  /\ UNCHANGED excelError
  /\ UNCHANGED pageVars
  /\ UNCHANGED axisVars
  /\ UNCHANGED sizeVars
  /\ UNCHANGED <<showFilters, selectedYears, selectedBrands>>

\* the loader of call id rejects: setError(message), then finally
\* setLoading(false)
ExcelLoadRejects(id) ==
  /\ id \in 1..Len(excelCalls)
  /\ excelCalls[id] = "pending"
  /\ excelCalls' = [excelCalls EXCEPT ![id] = "rejected"]
  /\ excelError' = ErrorOf(id)
  /\ excelLoading' = FALSE
  /\ UNCHANGED excelData
  /\ UNCHANGED pageVars
  /\ UNCHANGED axisVars
  /\ UNCHANGED sizeVars
  /\ UNCHANGED <<showFilters, selectedYears, selectedBrands>>

ExcelSomeLoadResolves == \E id \in 1..MaxCalls : ExcelLoadResolves(id)

ExcelSomeLoadRejects == \E id \in 1..MaxCalls : ExcelLoadRejects(id)

InitExcel ==
  /\ PagesIdle
  /\ MAJOR_FOCAL_LENGTHS = <<>>
  /\ AxisIdle
  /\ FiltersIdle

NextExcel ==
  \/ ExcelStartLoad
  \/ ExcelSomeLoadResolves
  \/ ExcelSomeLoadRejects

SpecExcel == InitExcel /\ [][NextExcel]_vars

(***************************************************************************)
(* Properties                                                              *)
(***************************************************************************)
DataOf(d) == chartData.datasets[d].data

LensesOf(d) == OriginalLensesOrEmpty(chartData.datasets[d])

DatasetIds == 1..Len(chartData.datasets)

AperturePage == page \in {"aperture", "aperture2"}

\* the reference focal lengths the projector of the last load worked with
Reference == MajorsNum(chartData, MAJOR_FOCAL_LENGTHS)

ReferenceSet == {Reference[k] : k \in 1..Len(Reference)}

NativeTypes == {"actual", "actual_for_vertical_line"}

ConnectorTypes == {"generated_connector", "virtual_connector"}

BoundaryTypes == {"theoretical_end", "theoretical_extension_to_200mm",
                  "theoretical_segment_end", "virtual_segment_end"}

\* the lens of dataset d at focal length f (focal lengths are unique)
LensAt(d, f) ==
  LensesOf(d)[CHOOSE i \in 1..Len(LensesOf(d)) : LensesOf(d)[i].focalLength = f]

\* a lens the projector of the mounted page does not skip
IsValidLens(d, i) ==
  IF page = "sensor"
  THEN SensorSpecOf(chartData.datasets[d], LensesOf(d)[i].focalLength) # ""
  ELSE ~IsInvalidLens(LensesOf(d)[i])

BoundaryOf(d, i) ==
  IF i < Len(LensesOf(d)) THEN LensesOf(d)[i + 1].focalLength ELSE FOCAL_LENGTH_AT_END

\* positions of the points of the given types whose basis lens is at focal length f
PointsOfLens(d, types, f) ==
  {k \in 1..Len(DataOf(d)) : DataOf(d)[k].pointType \in types /\ DataOf(d)[k].basis = f}

\* C1: on the aperture pages every non-native point whose basis lens lacks a
\* numeric physicalApertureValue or conversionFactor has
\* y = aperture * originalFocalLength / focalLength of the basis lens.
C1_FallbackProjection ==
  AperturePage =>
    \A d \in DatasetIds : \A k \in 1..Len(DataOf(d)) :
      LET p == DataOf(d)[k]
          basisLens == LensAt(d, p.basis)
      IN  (/\ p.pointType \notin NativeTypes
           /\ ~(IsNumber(basisLens.physicalApertureValue) /\ IsNumber(basisLens.conversionFactor))
           /\ basisLens.focalLength # 0)
          => RatEq(p.y, Rat(basisLens.aperture * p.originalFocalLength, basisLens.focalLength))

\* the focal lengths of the table columns: getAllFocalLengths
TableFocals(d) == ReferenceSet \cup {LensesOf(d)[i].focalLength : i \in 1..Len(LensesOf(d))}

\* the lens the table functions project from: the greatest focal length <= t
TableBasis(d, t) ==
  LensAt(d, CHOOSE f \in {LensesOf(d)[i].focalLength : i \in 1..Len(LensesOf(d))} :
              /\ f <= t
              /\ \A i \in 1..Len(LensesOf(d)) :
                   LensesOf(d)[i].focalLength <= t => LensesOf(d)[i].focalLength <= f)

\* the table function of the mounted aperture page, before rounding
TableRaw(d, t) ==
  IF page = "aperture" THEN ApertureTableRaw(t, LensesOf(d), chartData.datasets)
  ELSE Aperture2TableRaw(t, LensesOf(d))

IsProjectedColumn(d, t) ==
  /\ Len(LensesOf(d)) > 0
  /\ t >= MinFocal(LensesOf(d))
  /\ \A i \in 1..Len(LensesOf(d)) : LensesOf(d)[i].focalLength # t

\* C2: on the aperture pages every projected value whose basis lens has both
\* physical parameters equals (physicalApertureValue * conversionFactor /
\* focalLength) * targetFL, for the chart points and for the table function
\* before rounding.
C2_PhysicalProjection ==
  AperturePage =>
    \A d \in DatasetIds :
      /\ \A k \in 1..Len(DataOf(d)) :
           LET p == DataOf(d)[k]
               basisLens == LensAt(d, p.basis)
           IN  (p.pointType \notin NativeTypes /\ HasPhysicalParams(basisLens))
               => RatEq(p.y, Rat(basisLens.physicalApertureValue * basisLens.conversionFactor
                                   * p.originalFocalLength, basisLens.focalLength))
      /\ \A t \in TableFocals(d) :
           (IsProjectedColumn(d, t) /\ HasPhysicalParams(TableBasis(d, t)))
           => LET basisLens == TableBasis(d, t)
              IN  RatEq(TableRaw(d, t),
                        Rat(basisLens.physicalApertureValue * basisLens.conversionFactor * t,
                            basisLens.focalLength))

\* the projector ran over the lenses (the aperture pages project only with a
\* non-empty reference list)
Projected(d) == page = "sensor" \/ Len(Reference) > 0

\* C3: for every valid lens i and every reference focal length r strictly
\* between the lens's focal length and its boundary there is exactly one
\* connector point at r with lens i as basis, and there is no connector at any
\* other focal length.
C3_ConnectorPoints ==
  \A d \in DatasetIds :
    /\ \A i \in 1..Len(LensesOf(d)) : \A r \in ReferenceSet :
         (/\ IsValidLens(d, i)
          /\ Projected(d)
          /\ LensesOf(d)[i].focalLength < r
          /\ r < BoundaryOf(d, i))
         => Cardinality({k \in PointsOfLens(d, ConnectorTypes, LensesOf(d)[i].focalLength) :
                           DataOf(d)[k].originalFocalLength = r}) = 1
    /\ \A k \in 1..Len(DataOf(d)) :
         LET p == DataOf(d)[k]
         IN  p.pointType \in ConnectorTypes
             => \E i \in 1..Len(LensesOf(d)) :
                  /\ IsValidLens(d, i)
                  /\ p.basis = LensesOf(d)[i].focalLength
                  /\ p.originalFocalLength \in ReferenceSet
                  /\ LensesOf(d)[i].focalLength < p.originalFocalLength
                  /\ p.originalFocalLength < BoundaryOf(d, i)

\* position k of dataset d holds the segment-end point of a lens, placed at the
\* focal length of the next lens, and that next lens has a native point
IsJumpStart(d, k) ==
  LET p == DataOf(d)[k]
  IN  /\ p.pointType \in BoundaryTypes
      /\ \E i \in 1..(Len(LensesOf(d)) - 1) :
           /\ LensesOf(d)[i].focalLength = p.basis
           /\ LensesOf(d)[i + 1].focalLength = p.originalFocalLength
      /\ PointsOfLens(d, NativeTypes, p.originalFocalLength) # {}

\* C4: whenever the segment-end point of lens i and the native point of lens
\* i+1 share a focal length, the segment-end point is immediately followed by
\* the point carrying lens i+1's native value.
C4_VerticalJumpOrder ==
  \A d \in DatasetIds : \A k \in 1..Len(DataOf(d)) :
    IsJumpStart(d, k)
    => /\ k < Len(DataOf(d))
       /\ DataOf(d)[k + 1].pointType \in NativeTypes
       /\ DataOf(d)[k + 1].basis = DataOf(d)[k].originalFocalLength
       /\ DataOf(d)[k + 1].originalFocalLength = DataOf(d)[k].originalFocalLength
       /\ RatEq(DataOf(d)[k + 1].x, DataOf(d)[k].x)

\* a sorted page holds a vertical jump between two lenses, with connectors of
\* both lenses around it
C4_Witness ==
  /\ page \in {"sensor", "aperture2"}
  /\ \E d \in DatasetIds : \E k \in 2..(Len(DataOf(d)) - 2) :
       /\ IsJumpStart(d, k)
       /\ DataOf(d)[k + 1].pointType = "actual"
       /\ DataOf(d)[k - 1].pointType \in ConnectorTypes
       /\ DataOf(d)[k + 2].pointType \in ConnectorTypes

\* C5: the stored point sequence is non-decreasing in originalFocalLength.
C5_NonDecreasing ==
  \A d \in DatasetIds : \A k \in 1..(Len(DataOf(d)) - 1) :
    DataOf(d)[k].originalFocalLength <= DataOf(d)[k + 1].originalFocalLength

\* C6: every valid lens has exactly one boundary point, placed at its boundary,
\* when the boundary lies above its focal length, and none otherwise; a
\* single-lens phone yields its native point, the connectors strictly between
\* its focal length and 200, and one boundary point at 200.
C6_SegmentBoundary ==
  \A d \in DatasetIds :
    /\ \A i \in 1..Len(LensesOf(d)) :
         (IsValidLens(d, i) /\ Projected(d))
         => LET mine == PointsOfLens(d, BoundaryTypes, LensesOf(d)[i].focalLength)
            IN  IF BoundaryOf(d, i) > LensesOf(d)[i].focalLength
                THEN /\ Cardinality(mine) = 1
                     /\ \A k \in mine : DataOf(d)[k].originalFocalLength = BoundaryOf(d, i)
                ELSE mine = {}
    /\ (Len(LensesOf(d)) = 1 /\ IsValidLens(d, 1) /\ Projected(d)
        /\ LensesOf(d)[1].focalLength < FOCAL_LENGTH_AT_END)
       => LET between == {r \in ReferenceSet :
                            LensesOf(d)[1].focalLength < r /\ r < FOCAL_LENGTH_AT_END}
          IN  /\ Len(DataOf(d)) = Cardinality(between) + 2
              /\ DataOf(d)[1].pointType = "actual"
              /\ DataOf(d)[Len(DataOf(d))].pointType \in BoundaryTypes
              /\ DataOf(d)[Len(DataOf(d))].originalFocalLength = FOCAL_LENGTH_AT_END
              /\ \A r \in between :
                   \E k \in 2..(Len(DataOf(d)) - 1) :
                     /\ DataOf(d)[k].pointType \in ConnectorTypes
                     /\ DataOf(d)[k].originalFocalLength = r

\* the table cell of dataset d at focal length t
TableCell(d, t) ==
  CASE page = "aperture" ->
         calculateApertureAtFocalLength(t, LensesOf(d), chartData.datasets)
    [] page = "aperture2" -> calculateApertureAtFocalLength2(t, LensesOf(d))
    [] page = "sensor" ->
         calculateSensorSizeAtFocalLength(t, LensesOf(d), chartData.datasets[d].lensDetails)

C8_TickMapsToIndex ==
  (mapper = "transform" /\ called /\ IsStrictlyAscending(axTicks))
  => \A k \in 1..Len(axTicks) :
       axValue = axTicks[k] => RatEq(axResult, RatOfInt(k - 1))

C8_Witness ==
  /\ mapper = "transform"
  /\ called
  /\ Len(axTicks) = MaxTicks
  /\ IsStrictlyAscending(axTicks)
  /\ axValue = axTicks[Len(axTicks)]
  /\ RatEq(axResult, RatOfInt(Len(axTicks) - 1))

\* C9: with at least two ticks a value between two ticks is interpolated on
\* their segment, a value below the first tick is extrapolated on the first
\* segment (negative position) and a value above the last tick on the last
\* segment (position above the last index); nothing is clamped.
C9_InterpolateExtrapolate ==
  (mapper = "transform" /\ called /\ Len(axTicks) >= 2
     /\ IsStrictlyAscending(axTicks))
  => LET n == Len(axTicks)
         OnSegment(i) == Rat((i - 1) * (axTicks[i + 1] - axTicks[i]) + (axValue - axTicks[i]),
                             axTicks[i + 1] - axTicks[i])
     IN  /\ \A i \in 1..(n - 1) :
              (axTicks[i] < axValue /\ axValue < axTicks[i + 1])
              => RatEq(axResult, OnSegment(i))
         /\ axValue < axTicks[1]
            => (RatEq(axResult, OnSegment(1)) /\ RatLess(axResult, RatOfInt(0)))
         /\ axValue > axTicks[n]
            => (RatEq(axResult, OnSegment(n - 1)) /\ RatLess(RatOfInt(n - 1), axResult))

C9_Witness ==
  /\ mapper = "transform"
  /\ called
  /\ Len(axTicks) >= 2
  /\ IsStrictlyAscending(axTicks)
  /\ axValue > axTicks[Len(axTicks)] + 1
  /\ RatLess(RatOfInt(Len(axTicks) - 1), axResult)

\* C10: for a non-null sensor value the position lies in [0, N-1]; it is 0 at
\* and above the largest tick value and N-1 at and below the smallest.
C10_SensorClamp ==
  (mapper = "mapSensor" /\ called /\ ~IsNull(sensorValue))
  => LET defs == CUSTOM_SENSOR_Y_AXIS_DEFINITIONS
         N == Len(defs)
     IN  /\ ~IsNull(yPosition)
         /\ RatLeq(RatOfInt(0), yPosition)
         /\ RatLeq(yPosition, RatOfInt(N - 1))
         /\ NumLeq(defs[1], sensorValue) => RatEq(yPosition, RatOfInt(0))
         /\ NumLeq(sensorValue, defs[N]) => RatEq(yPosition, RatOfInt(N - 1))

C10_Witness ==
  /\ mapper = "mapSensor"
  /\ called
  /\ ~IsNull(sensorValue)
  /\ NumLess(CUSTOM_SENSOR_Y_AXIS_DEFINITIONS[1], sensorValue)
  /\ yPosition = RatOfInt(0)

\* C11: a sensor value strictly between the smallest and the largest tick
\* value lies in exactly one segment defs[i+1] < value <= defs[i] and maps to
\* (i+1) - (value - defs[i+1]) / (defs[i] - defs[i+1]) (i counted from 0);
\* every tick value defs[k] maps to k.
C11_SensorInterpolation ==
  (mapper = "mapSensor" /\ called /\ ~IsNull(sensorValue) /\ ~IsNaN(sensorValue))
  => LET defs == CUSTOM_SENSOR_Y_AXIS_DEFINITIONS
         N == Len(defs)
         segs == {i \in 1..(N - 1) :
                    RatLess(defs[i + 1], sensorValue) /\ RatLeq(sensorValue, defs[i])}
     IN  /\ (RatLess(defs[N], sensorValue) /\ RatLess(sensorValue, defs[1]))
            => /\ Cardinality(segs) = 1
               /\ \A i \in segs :
                    RatEq(yPosition,
                          RatSub(RatOfInt(i),
                                 RatDiv(RatSub(sensorValue, defs[i + 1]),
                                        RatSub(defs[i], defs[i + 1]))))
         /\ \A k \in 1..N :
              RatEq(sensorValue, defs[k]) => RatEq(yPosition, RatOfInt(k - 1))

\* a value strictly inside a segment that is not the first one, mapped to a
\* position strictly between the two indices
C11_Witness ==
  /\ mapper = "mapSensor"
  /\ called
  /\ ~IsNull(sensorValue) /\ ~IsNaN(sensorValue)
  /\ \E i \in 2..(Len(CUSTOM_SENSOR_Y_AXIS_DEFINITIONS) - 1) :
       /\ RatLess(CUSTOM_SENSOR_Y_AXIS_DEFINITIONS[i + 1], sensorValue)
       /\ RatLess(sensorValue, CUSTOM_SENSOR_Y_AXIS_DEFINITIONS[i])
       /\ RatLess(RatOfInt(i - 1), yPosition)
       /\ RatLess(yPosition, RatOfInt(i))

\* the first two ticks are equal and the value lies below them
FirstSegmentDegenerate ==
  /\ Len(axTicks) >= 2
  /\ axTicks[1] = axTicks[2]
  /\ axValue < axTicks[1]

\* the last two ticks are equal and the value lies above them
LastSegmentDegenerate ==
  /\ Len(axTicks) >= 2
  /\ axTicks[Len(axTicks) - 1] = axTicks[Len(axTicks)]
  /\ axValue > axTicks[Len(axTicks)]

\* a value between two ticks of equal value (the zero-length bracketing segment)
BracketDegenerate(i) ==
  /\ axTicks[i] = axTicks[i + 1]
  /\ axTicks[i] < axValue
  /\ axValue <= axTicks[i + 1]

\* C12: for every non-decreasing tick list and every value the position is a
\* defined finite number, and on a zero-length segment (bracketing, first or
\* last) it is the lower index of that segment.
C12_DegenerateLowerIndex ==
  (mapper = "transform" /\ called)
  => LET n == Len(axTicks)
     IN  /\ axResult[2] > 0
         /\ \A i \in 1..(n - 1) : BracketDegenerate(i) => RatEq(axResult, RatOfInt(i - 1))
         /\ FirstSegmentDegenerate => RatEq(axResult, RatOfInt(0))
         /\ LastSegmentDegenerate => RatEq(axResult, RatOfInt(n - 2))
         /\ (n = 1 /\ axTicks[1] = 0) => RatEq(axResult, RatOfInt(0))

\* C12 (amended): for every non-decreasing tick list and every value the
\* position is a defined finite number; on a zero-length bracketing or first
\* segment it is the lower index of the segment, and above a zero-length last
\* segment it is the last index.
C12_DegenerateSegment ==
  (mapper = "transform" /\ called)
  => LET n == Len(axTicks)
     IN  /\ axResult[2] > 0
         /\ \A i \in 1..(n - 1) : BracketDegenerate(i) => RatEq(axResult, RatOfInt(i - 1))
         /\ FirstSegmentDegenerate => RatEq(axResult, RatOfInt(0))
         /\ LastSegmentDegenerate => RatEq(axResult, RatOfInt(n - 1))
         /\ (n = 1 /\ axTicks[1] = 0) => RatEq(axResult, RatOfInt(0))

\* a value above a zero-length last segment of a list of three ticks
C12_Witness ==
  /\ mapper = "transform"
  /\ called
  /\ Len(axTicks) = 3
  /\ LastSegmentDegenerate
  /\ axTicks[1] < axTicks[2]
  /\ RatEq(axResult, RatOfInt(2))

\* the integer index the position names, -1 when it names none
TickIndexOf(value, length) ==
  IF \E i \in 0..(length - 1) : ~IsNaN(value) /\ RatEq(value, RatOfInt(i))
  THEN CHOOSE i \in 0..(length - 1) : RatEq(value, RatOfInt(i))
  ELSE -1

\* C13: the x callback of the aperture page returns "<MAJOR_FOCAL_LENGTHS[i]>mm"
\* and the y callback of the sensor-size page returns the label of tick
\* definition i exactly when the position is an integer i within the list; for
\* every other position they return the empty string.
C13_TickLabels ==
  /\ (mapper = "xTick" /\ called)
     => LET i == TickIndexOf(tickValue, Len(MAJOR_FOCAL_LENGTHS))
        IN  IF i >= 0
            THEN tickLabel = ToString(MAJOR_FOCAL_LENGTHS[i + 1]) \o "mm" /\ tickLabel # ""
            ELSE tickLabel = ""
  /\ (mapper = "yTick" /\ called)
     => LET i == TickIndexOf(tickValue, Len(CUSTOM_SENSOR_Y_AXIS_DEFINITIONS))
        IN  IF i >= 0
            THEN tickLabel = SensorTickLabel(i + 1) /\ tickLabel # ""
            ELSE tickLabel = ""

\* a non-integer position inside the range of a non-empty tick list gets no label
C13_Witness ==
  /\ mapper = "xTick"
  /\ called
  /\ Len(MAJOR_FOCAL_LENGTHS) >= 2
  /\ ~IsNaN(tickValue)
  /\ RatLess(RatOfInt(0), tickValue)
  /\ RatLess(tickValue, RatOfInt(1))
  /\ tickLabel = ""

\* the focal lengths a table column can stand for: the label values and the
\* native focal lengths of the model
TargetFocals == {parseIntLabel(LabelPool[i]) : i \in 1..Len(LabelPool)} \cup FocalPool

\* C14: for every phone with lenses and every target focal length below the
\* phone's smallest native focal length the table function of the page returns
\* null, and no chart point of the phone lies below that focal length.
C14_NothingBelowWidest ==
  \A d \in DatasetIds :
    Len(LensesOf(d)) > 0
    => /\ \A t \in TargetFocals :
            t < MinFocal(LensesOf(d)) => IsNull(TableCell(d, t))
       /\ \A k \in 1..Len(DataOf(d)) :
            DataOf(d)[k].originalFocalLength >= MinFocal(LensesOf(d))

\* setPhoneData and setChartData of the current mount have run
LoadSucceeded == ~loading /\ phoneData = phoneFile

RECURSIVE ValidOnly(_)
\* the lenses of the list that have a numeric focalLength and aperture
ValidOnly(lenses) ==
  IF lenses = <<>> THEN <<>>
  ELSE IF IsInvalidLens(Head(lenses)) THEN ValidOnly(Tail(lenses))
       ELSE <<Head(lenses)>> \o ValidOnly(Tail(lenses))

\* dataset d of the loaded chart data with another lens list
WithLenses(d, lenses) ==
  [label |-> chartData.datasets[d].label,
   originalLenses |-> lenses,
   lensDetails |-> chartData.datasets[d].lensDetails]

\* the points of a point sequence whose basis lens is at focal length f
PointsBasedOn(points, f) == {points[k] : k \in {j \in 1..Len(points) : points[j].basis = f}}

\* C15: after a load, no point is based on a lens with a non-numeric
\* focalLength or aperture, and every valid lens has exactly the points it has
\* when the invalid lenses are not in the list.
C15_InvalidLensSkipped ==
  LoadSucceeded =>
    \A d \in DatasetIds :
      LET lenses == LensesOf(d)
          without == ProjectDataset(page, WithLenses(d, ValidOnly(lenses)), Reference)
      IN  /\ \A k \in 1..Len(DataOf(d)) :
               \E i \in 1..Len(lenses) :
                 /\ ~IsInvalidLens(lenses[i])
                 /\ lenses[i].focalLength = DataOf(d)[k].basis
          /\ \A i \in 1..Len(lenses) :
               ~IsInvalidLens(lenses[i])
               => PointsBasedOn(DataOf(d), lenses[i].focalLength)
                    = PointsBasedOn(without, lenses[i].focalLength)

\* C16: no load ends in the catch block with a TypeError raised by the
\* projection of a dataset that has a null entry or a null focalLength: the
\* projection of every chart file completes and its result is stored.
C16_MalformedNeverFatal == loggedError # "TypeError"

\* the dataset has no lenses (empty or absent originalLenses)
HasNoLenses(dataset) == Len(OriginalLensesOrEmpty(dataset)) = 0

\* C17: a chart file whose datasets have no lenses loads without an error;
\* the data array of a dataset without lenses is empty and its table cells are
\* null at every target focal length.
C17_NoLenses ==
  /\ (loading /\ \A i \in 1..Len(chartFile.datasets) : HasNoLenses(chartFile.datasets[i]))
     => ~TransformThrows(page, chartFile)
  /\ LoadSucceeded =>
       \A d \in DatasetIds :
         HasNoLenses(chartData.datasets[d])
         => /\ DataOf(d) = <<>>
            /\ \A t \in TargetFocals : IsNull(TableCell(d, t))

\* a dataset without an originalLenses field, loaded with reference focal lengths
C17_Witness ==
  /\ LoadSucceeded
  /\ Len(Reference) > 0
  /\ \E d \in DatasetIds :
       /\ "originalLenses" \notin DOMAIN chartData.datasets[d]
       /\ DataOf(d) = <<>>
       /\ \A t \in TargetFocals : IsNull(TableCell(d, t))

\* the lenses of dataset d are all valid and ascending in focal length
ValidAscending(d) ==
  /\ \A i \in 1..Len(LensesOf(d)) : ~IsInvalidLens(LensesOf(d)[i])
  /\ \A i \in 1..(Len(LensesOf(d)) - 1) :
       LensesOf(d)[i].focalLength < LensesOf(d)[i + 1].focalLength

\* C18: loaded with an empty label list and an empty reference list, every
\* lens of a valid ascending lens list has its native point and, when its
\* boundary lies above its focal length, its segment-boundary point; there are
\* no connector points.
C18_EmptyReferenceList ==
  (LoadSucceeded /\ Len(chartData.labels) = 0 /\ Len(MAJOR_FOCAL_LENGTHS) = 0)
  => \A d \in DatasetIds :
       ValidAscending(d)
       => /\ \A i \in 1..Len(LensesOf(d)) :
               LET f == LensesOf(d)[i].focalLength
               IN  /\ \E k \in PointsOfLens(d, NativeTypes, f) :
                        DataOf(d)[k].originalFocalLength = f
                   /\ BoundaryOf(d, i) > f
                      => \E k \in PointsOfLens(d, BoundaryTypes, f) :
                           DataOf(d)[k].originalFocalLength = BoundaryOf(d, i)
          /\ \A k \in 1..Len(DataOf(d)) : DataOf(d)[k].pointType \notin ConnectorTypes

\* C19: for a phone whose lenses are all valid (their focal lengths are
\* pairwise distinct), the stored point sequence is the one the projector
\* produces for the lens list sorted ascending by focal length.
C19_OrderIndependent ==
  LoadSucceeded =>
    \A d \in DatasetIds :
      (\A i \in 1..Len(LensesOf(d)) : ~IsInvalidLens(LensesOf(d)[i]))
      => DataOf(d) = ProjectDataset(page,
                                    WithLenses(d, SortLensesByFocalLength(LensesOf(d))),
                                    Reference)

\* the label values of the loaded chart data
LoadedLabels == [i \in 1..Len(chartData.labels) |-> parseIntLabel(chartData.labels[i])]

\* C20: after every load, whatever was loaded by earlier mounts, the reference
\* focal lengths the page works with are the labels of the loaded chart file
\* and every point sequence is the projection of its dataset with those
\* reference focal lengths.
C20_PureFunctionOfFile ==
  LoadSucceeded =>
    /\ MAJOR_FOCAL_LENGTHS = LoadedLabels
    /\ \A d \in DatasetIds :
         DataOf(d) = ProjectDataset(page, chartData.datasets[d], LoadedLabels)

\* getAllFocalLengths: the reference focal lengths and every native focal
\* length of every loaded phone
AllTableFocals == UNION {TableFocals(e) : e \in DatasetIds}

\* C21: on the aperture page, for every loaded phone and every table column,
\* calculateApertureAtFocalLength returns the value it returns when the phone
\* is the only dataset of chartData: the other datasets have no influence.
C21_PhoneIndependence ==
  (page = "aperture" /\ LoadSucceeded) =>
    \A d \in DatasetIds : \A t \in AllTableFocals :
      calculateApertureAtFocalLength(t, LensesOf(d), chartData.datasets)
        = calculateApertureAtFocalLength(t, LensesOf(d), <<chartData.datasets[d]>>)

RECURSIVE Gcd(_, _)
Gcd(a, b) == IF b = 0 THEN a ELSE Gcd(b, a % b)

\* a positive rational in lowest terms
Lowest(r) == <<r[1] \div Gcd(r[1], r[2]), r[2] \div Gcd(r[1], r[2])>>

\* the numeric size a sensor spec text stands for
NumericSize(spec) ==
  CASE spec = "1/1.3" -> Rat(10, 13)
    [] spec = "1/2"   -> Rat(1, 2)
    [] spec = "1/2.5" -> Rat(2, 5)

\* C22: calculateEquivalentSensorSize(spec, f, t) is s * f / t for a spec of
\* numeric size s >= 1/2 and s * f / t * 18/16 for s < 1/2, and for a fixed
\* basis lens the product result * t is the same for every target t.
C22_SingleBasisConversion ==
  (mapper = "equivalentSize" /\ called) =>
    LET s == NumericSize(sizeSpec)
        cropped == RatMul(s, Rat(sizeFocal, sizeTarget))
    IN  /\ RatLeq(Rat(1, 2), s) => RatEq(Lowest(sizeResult), Lowest(cropped))
        /\ RatLess(s, Rat(1, 2))
             => RatEq(Lowest(sizeResult), Lowest(RatMul(Lowest(cropped), Rat(18, 16))))
        /\ \A t \in SizeFocals :
             RatEq(Lowest(RatMul(Lowest(sizeResult), RatOfInt(sizeTarget))),
                   Lowest(RatMul(Lowest(calculateEquivalentSensorSize(sizeSpec, sizeFocal, t)),
                                 RatOfInt(t))))

\* a sensor of at least 1/2 inch whose cropped size at the target is below 1/2
C22_Witness ==
  /\ mapper = "equivalentSize" /\ called
  /\ RatLeq(Rat(1, 2), NumericSize(sizeSpec))
  /\ RatLess(RatMul(NumericSize(sizeSpec), Rat(sizeFocal, sizeTarget)), Rat(1, 2))
  /\ RatEq(Lowest(sizeResult),
           Lowest(RatMul(NumericSize(sizeSpec), Rat(sizeFocal, sizeTarget))))

\* the focal length of the lens the table function of the second aperture
\* page projects from at target r (bestLens of suitableLenses)
Aperture2TableBasis(d, r) ==
  LensesOf(d)[ReduceMaxFocal(LensesOf(d),
                             SuitableLenses(LensesOf(d), r, Len(LensesOf(d))))].focalLength

\* the focal length of bestLens of calculateSensorSizeAtFocalLength at target r
SensorTableBasis(d, r) == LensesOf(d)[BestLensIndex(r, LensesOf(d))].focalLength

\* the greatest native focal length of phone d that is <= r
GreatestFocalUpTo(d, r) ==
  CHOOSE f \in {LensesOf(d)[i].focalLength : i \in 1..Len(LensesOf(d))} :
    /\ f <= r
    /\ \A i \in 1..Len(LensesOf(d)) :
         LensesOf(d)[i].focalLength <= r => LensesOf(d)[i].focalLength <= f

\* C23: on the second aperture page, at every 'generated_connector' of the
\* chart the table function projects from the same lens as the chart (the lens
\* of the greatest focal length <= r) and returns the connector's y rounded to
\* one decimal; on the sensor-size page, at every 'virtual_connector' the table
\* function projects from the same lens and returns the point's rawSensorSize.
C23_TableMatchesChart ==
  LoadSucceeded =>
    \A d \in DatasetIds : \A k \in 1..Len(DataOf(d)) :
      LET p == DataOf(d)[k]
          r == p.originalFocalLength
      IN  /\ (page = "aperture2" /\ p.pointType = "generated_connector") =>
               /\ p.basis = GreatestFocalUpTo(d, r)
               /\ Aperture2TableBasis(d, r) = p.basis
               /\ calculateApertureAtFocalLength2(r, LensesOf(d)) = RoundToOneDecimal(p.y)
          /\ (page = "sensor" /\ p.pointType = "virtual_connector") =>
               /\ p.basis = GreatestFocalUpTo(d, r)
               /\ SensorTableBasis(d, r) = p.basis
               /\ calculateSensorSizeAtFocalLength(r, LensesOf(d),
                                                   chartData.datasets[d].lensDetails)
                    = p.rawSensorSize

\* a connector of the second lens of a phone whose y is no multiple of 0.1
C23_Witness ==
  /\ LoadSucceeded /\ page = "aperture2"
  /\ \E d \in DatasetIds : \E k \in 1..Len(DataOf(d)) :
       /\ DataOf(d)[k].pointType = "generated_connector"
       /\ Len(LensesOf(d)) >= 2
       /\ DataOf(d)[k].basis = LensesOf(d)[2].focalLength
       /\ ~RatEq(DataOf(d)[k].y, RoundToOneDecimal(DataOf(d)[k].y))
       /\ calculateApertureAtFocalLength2(DataOf(d)[k].originalFocalLength, LensesOf(d))
            = RoundToOneDecimal(DataOf(d)[k].y)

\* C24: for a strictly ascending list of positive ticks the mapping is strictly
\* increasing: every value above the mapped one gets a greater position and
\* every value below it a smaller one, on whichever side of the first or last
\* tick the two lie.
C24_OrderPreserving ==
  (mapper = "transform" /\ called /\ IsStrictlyAscending(axTicks)
     /\ \A i \in 1..Len(axTicks) : axTicks[i] > 0) =>
    \A b \in 0..MaxFocalValue :
      /\ axValue < b => RatLess(axResult, transformFocalLengthToXCoordinate(b, axTicks))
      /\ b < axValue => RatLess(transformFocalLengthToXCoordinate(b, axTicks), axResult)

\* a single tick, the value below it: its position is negative, and the
\* positions of the values above the tick are positive
C24_Witness ==
  /\ mapper = "transform" /\ called
  /\ Len(axTicks) = 1 /\ axTicks[1] > 0
  /\ axValue < axTicks[1]
  /\ RatLess(axResult, RatOfInt(0))
  /\ RatLess(RatOfInt(0), transformFocalLengthToXCoordinate(axTicks[1] + 1, axTicks))

\* C25: after mount loading eventually becomes false and never becomes true
\* again; the step that ends loading either leaves chartData, phoneData and
\* visibleDatasets at their values or is the end of a load whose projection
\* completed, storing the projected chart data and the phone data; no other
\* step changes the three, so on every other path they keep their initial
\* empty values.
C25_LoadLifecycle ==
  /\ <>[](~loading)
  /\ [][~loading => ~loading']_vars
  /\ [][(chartData' # chartData \/ phoneData' # phoneData
            \/ visibleDatasets' # visibleDatasets)
          => /\ loading /\ ~loading'
             /\ ~TransformThrows(page, chartFile)
             /\ loggedError' # "NetworkError"
             /\ chartData = EmptyChartData /\ phoneData = EmptyPhoneData
             /\ visibleDatasets = {}
             /\ chartData' = Transformed(page, chartFile,
                                         MajorsNum(chartFile, MAJOR_FOCAL_LENGTHS'))
             /\ phoneData' = phoneFile]_vars

\* the projection raised: loading is over and nothing was stored
C25_Witness ==
  /\ ~loading
  /\ loggedError = "TypeError"
  /\ TransformThrows(page, chartFile)
  /\ chartData = EmptyChartData /\ phoneData = EmptyPhoneData /\ visibleDatasets = {}

\* the names of the phones of a phone file
PhoneNames == {ph.name : ph \in AllPhones}

\* C26: the datasets passed to the chart are exactly the loaded datasets whose
\* label is visible, in their order; hideAll leaves none of them, showAll all
\* of them, and toggleDataset(label) flips the visibility of that label and of
\* no other label.
C26_VisibilityStateMachine ==
  /\ [](\A i \in DatasetIds :
          (\E k \in 1..Len(filteredDatasets) : filteredDatasets[k] = chartData.datasets[i])
            <=> chartData.datasets[i].label \in visibleDatasets)
  /\ [](\A k \in 1..Len(filteredDatasets) :
          \E i \in DatasetIds : filteredDatasets[k] = chartData.datasets[i])
  /\ [][hideAll => FilterVisible(chartData'.datasets, visibleDatasets') = <<>>]_vars
  /\ [][showAll => FilterVisible(chartData'.datasets, visibleDatasets') = chartData'.datasets]_vars
  /\ [][\A l \in PhoneNames :
          toggleDataset(l) =>
            /\ (l \in visibleDatasets') <=> (l \notin visibleDatasets)
            /\ \A other \in (PhoneNames \cup LoadedLabelsOf(chartData)
                                \cup visibleDatasets \cup visibleDatasets') \ {l} :
                 (other \in visibleDatasets') <=> (other \in visibleDatasets)]_vars

\* every loaded dataset is rendered, one of them of a phone that has no button
\* and passes no filter: showAll has acted
C26_Witness ==
  /\ ~loading
  /\ Len(chartData.datasets) = 2
  /\ filteredDatasets = chartData.datasets
  /\ \E i \in DatasetIds : chartData.datasets[i].label \notin PhoneNames

\* the labels applyFilters is to select
MatchingLabels ==
  {l \in LoadedLabelsOf(chartData) :
     \E i \in DatasetIds : \E ph \in AllPhones :
       /\ chartData.datasets[i].label = l
       /\ ph.name = l
       /\ (selectedYears = {} \/ ph.releaseYear \in selectedYears)
       /\ (selectedBrands = {} \/ chartData.datasets[i].brand \in selectedBrands)}

\* C27: applyFilters replaces visibleDatasets by the labels of the loaded
\* datasets that have a phone of their name and pass the year and the brand
\* selection, closes the panel and keeps both selections; clearFilters empties
\* both selections and keeps visibleDatasets.
C27_ApplyAndClearFilters ==
  /\ [][applyFilters => /\ visibleDatasets' = MatchingLabels
                        /\ showFilters' = FALSE
                        /\ selectedYears' = selectedYears
                        /\ selectedBrands' = selectedBrands]_vars
  /\ [][clearFilters => /\ selectedYears' = {}
                        /\ selectedBrands' = {}
                        /\ visibleDatasets' = visibleDatasets]_vars

\* filters with a selected year and a selected brand were applied: one of two
\* loaded phones passes
C27_Witness ==
  /\ ~loading /\ ~showFilters
  /\ selectedYears # {} /\ selectedBrands # {}
  /\ Len(chartData.datasets) = 2
  /\ visibleDatasets = MatchingLabels
  /\ \E l \in LoadedLabelsOf(chartData) :
       visibleDatasets = {l} /\ LoadedLabelsOf(chartData) # {l}

\* C28: on the aperture page, when the visible datasets have at least one
\* plotted point, yAxisRange returns two members of APERTURE_SCALE, min <= max,
\* and every plotted y of the visible datasets lies between them.
C28_RangeCoversData ==
  (page = "aperture" /\ ~loading /\ PlottedYs(filteredDatasets) # {}) =>
    LET range == yAxisRange(filteredDatasets)
    IN  /\ \E i \in 1..Len(APERTURE_SCALE) : APERTURE_SCALE[i] = range.min
        /\ \E i \in 1..Len(APERTURE_SCALE) : APERTURE_SCALE[i] = range.max
        /\ range.min <= range.max
        /\ \A y \in PlottedYs(filteredDatasets) :
             RatLeq(RatOfInt(range.min), y) /\ RatLeq(y, RatOfInt(range.max))

\* whether a loadData call of the hook is in flight
ExcelInFlight == \E id \in 1..Len(excelCalls) : excelCalls[id] = "pending"

\* C29: loading is true while a call of the hook is in flight; once none is in
\* flight, data is the result of the most recently started call when that call
\* resolved, and error is its error when it rejected; a rejected call leaves
\* data as it was.
C29_OverlappingLoads ==
  /\ [](ExcelInFlight => excelLoading)
  /\ []((~ExcelInFlight /\ Len(excelCalls) > 0) =>
          LET last == Len(excelCalls)
          IN  /\ excelCalls[last] = "resolved" => (excelData = last /\ excelError = "")
              /\ excelCalls[last] = "rejected" => excelError = ErrorOf(last))
  /\ [][\A id \in 1..MaxCalls :
          ExcelLoadRejects(id) => (excelData' = excelData /\ excelError' = ErrorOf(id))]_vars

====
